---- MODULE Spec2Model ----
(***************************************************************************)
(* A model of the hypercube python-operators runtime:                      *)
(*   - the datum type system of runtime/persistance.py (SpecDatum),        *)
(*   - the request/response helpers of runtime/communication.py            *)
(*     (SpecBackend),                                                      *)
(*   - the job loop of runtime/runtimes.py driven through the terminal     *)
(*     backend (Spec).                                                     *)
(* Python's None is the string "None"; an exception is the name of its     *)
(* class; "ok" is a normal return.                                         *)
(***************************************************************************)
EXTENDS Integers, Sequences, FiniteSets, TLC

VARIABLES
    disk,       \* the file system: folder path -> [exists, entries]
    datums,     \* the Datum instances constructed so far, by instance id
    lastOp,     \* the last call made on the datum API and how it ended
    nextUuid,   \* number of uuid4().hex values drawn so far
    bcall,      \* the last call made on a CommunicationBackend and how it ended
    pc,         \* where Runtime.start stands
    err,        \* the exception that left Runtime.start, "none" while there is none
    stdout,     \* the protocol messages written to standard output, in order
    inCount,    \* the protocol messages consumed from standard input
    skipped,    \* foreign lines skipped by the get_response in progress
    pending,    \* the backend method waiting in get_response
    job,        \* the tasks of the job being run (next_job)
    taskIdx,    \* the position in job.tasks of the task being run (0: none)
    jobsReceived, \* the jobs received so far
    toCommit,   \* the output datums commit_datums has still to walk
    datum_cache,  \* Runtime.datum_cache: hash -> instance id (0: no entry)
    resolved,   \* the calls of Runtime._get_datum so far and how each ended
    events,     \* what the runtime did for the tasks of the current job, in order
    cli,        \* a SimpleCliCommunicationBackend: its job and job_completed
    cliLog,     \* the messages handed to its _send_message and its answers, in order
    ran,        \* the calls of Component.run so far and how each ended
    cast,       \* the calls of cast_if_needed so far and how each ended
    stdin,      \* standard input as a stream: its lines, the read position, closed
    reads,      \* the calls that read standard input so far and how each ended
    parsed,     \* the command lines handed to _parse_args and how each ended
    buildLog    \* the functions handed to the descriptor builder and the results

datumVars == <<disk, datums, lastOp, nextUuid>>

runtimeVars ==
    <<pc, err, stdout, inCount, skipped, pending, job, taskIdx, jobsReceived,
      toCommit, datum_cache, resolved, events, cli, cliLog, ran, cast, stdin, reads,
      parsed, buildLog>>

vars == <<disk, datums, lastOp, nextUuid, bcall, pc, err, stdout, inCount, skipped,
          pending, job, taskIdx, jobsReceived, toCommit, datum_cache, resolved,
          events, cli, cliLog, ran, cast, stdin, reads, parsed, buildLog>>

-----------------------------------------------------------------------------
(* Bounds *)

\* Tasks in one job.
MaxTasks == 2
\* Jobs the controller hands out.
MaxJobs == 2
\* Foreign lines on standard input before one response.
MaxNoise == 1

\* Datum instances that may be alive at once.
MaxInst == 2
\* uuid4 values a DatumFactory may draw.
MaxUuid == 1
\* Children one DatumFactory mints when it is looked at on its own.
MaxChildren == 2

-----------------------------------------------------------------------------
(* persistance.py: DatumDefinition *)

None == "None"

\* DatumDefinition.Type
DatumTypes == {"file", "folder", "dataframe", "object", "not_yet_known"}

\* Folder paths: a base folder, or the child base/<uuid> a factory mints.
BasePaths == {"data"}
Paths ==
    [base : BasePaths, sub : 0..(IF MaxUuid > MaxChildren THEN MaxUuid ELSE MaxChildren)]
PathOf(b) == [base |-> b, sub |-> 0]

\* DatumDefinition(path, type, hash)
DatumDefinition(p, t, h) == [path |-> p, type |-> t, hash |-> h]

\* The definitions the callers of the datum API hand in.
Definitions ==
    { DatumDefinition(PathOf(b), t, None) : b \in BasePaths, t \in DatumTypes }

\* The content hashes the controller uses.
Hashes == {"h1"}

-----------------------------------------------------------------------------
(* The file system under the datum paths *)

\* A file name: the part after the last dot, lower-cased, is ext; a name that
\* starts with a dot is hidden.
FileName(h, s, e) == [hidden |-> h, stem |-> s, ext |-> e]
NoName == FileName(FALSE, "", "")

\* A directory entry: a regular file holding val encoded as fmt, or a
\* sub-directory.
Entry(n, f, fmt, v) == [name |-> n, isfile |-> f, fmt |-> fmt, val |-> v]

Folder(ex, es) == [exists |-> ex, entries |-> es]
NoDir == Folder(FALSE, {})

\* Values an object file may hold and a component may set.
ObjValues == {"Hello", None}
\* Dataframes a table file may hold and a component may set.
DfValues == {"df1"}

\* The folders the model starts from.
InitFolders ==
    { NoDir,
      Folder(TRUE, {}),
      Folder(TRUE, {Entry(FileName(FALSE, "data", "pkl"), TRUE, "pkl", "Hello")}),
      Folder(TRUE, {Entry(FileName(FALSE, "data", "json"), TRUE, "json", None)}),
      Folder(TRUE, {Entry(FileName(FALSE, "df", "parquet"), TRUE, "parquet", "df0")}),
      Folder(TRUE, {Entry(FileName(TRUE, "keep", ""), TRUE, "text", None),
                    Entry(FileName(FALSE, "sub", ""), FALSE, "dir", None)}),
      Folder(TRUE, {Entry(FileName(FALSE, "data", "pkl"), TRUE, "pkl", "Hello"),
                    Entry(FileName(FALSE, "data", "json"), TRUE, "json", "Hello")}) }

\* Writing file n into folder f (open(..., "w") replaces a file of that name).
WriteFile(f, n, fmt, v) ==
    Folder(TRUE, {e \in f.entries : e.name # n} \cup {Entry(n, TRUE, fmt, v)})

HasFile(f, n) == \E e \in f.entries : e.name = n /\ e.isfile
FileAt(f, n) == CHOOSE e \in f.entries : e.name = n /\ e.isfile

-----------------------------------------------------------------------------
(* persistance.py: the Datum variants *)

DatumClasses ==
    {"FolderDatum", "UnspecifiedDatum", "FileDatum", "DataFrameDatum",
     "ObjectDatum", "DatumFactory"}

\* One Datum instance: its class, _definition, _committed, the lazily loaded
\* _df / _object (mem), FileDatum.filename, ObjectDatum.extension and
\* DatumFactory._generated_datums (instance ids, in creation order).
Instance(c, d, com, m, fn, ext, gen) ==
    [cls |-> c, def |-> d, committed |-> com, mem |-> m, filename |-> fn,
     extension |-> ext, generated |-> gen]

Absent ==
    Instance("absent", DatumDefinition(PathOf("data"), "file", None), FALSE, None,
             NoName, "", <<>>)

Live(i) == datums[i].cls # "absent"
InstIds == 1..MaxInst
\* The ids of a factory and its children.
FactoryIds == 1..(MaxChildren + 1)
AllIds == InstIds \cup FactoryIds
\* Instance ids are handed out in order of construction.
FreeId == Cardinality({i \in InstIds : Live(i)}) + 1

\* Datum.__init__: the definition is kept, the datum starts uncommitted.
NewDatum(c, d) == Instance(c, d, FALSE, None, NoName, "", <<>>)

\* FileDatum._find_single_file: [outcome, filename].
FindSingleFileMutant(f) ==
    LET files == {e \in f.entries : e.isfile}
    IN  IF ~f.exists THEN [outcome |-> "FileNotFoundError", filename |-> NoName]
        ELSE IF Cardinality(files) = 0 THEN [outcome |-> "ok", filename |-> NoName]
        ELSE IF Cardinality(files) > 1
             THEN [outcome |-> "ValueError", filename |-> NoName]
        ELSE [outcome |-> "ok", filename |-> (CHOOSE e \in files : TRUE).name]

FindSingleFile(f) ==
    LET files == {e \in f.entries : e.isfile /\ ~e.name.hidden}
    IN  IF ~f.exists THEN [outcome |-> "FileNotFoundError", filename |-> NoName]
        ELSE IF Cardinality(files) = 0 THEN [outcome |-> "ok", filename |-> NoName]
        ELSE IF Cardinality(files) > 1
             THEN [outcome |-> "ValueError", filename |-> NoName]
        ELSE [outcome |-> "ok", filename |-> (CHOOSE e \in files : TRUE).name]

\* FileDatum.__init__ and the __init__ of its subclasses.
NewFileDatum(c, d, dsk) ==
    LET found == FindSingleFile(dsk[d.path])
    IN  [outcome |-> found.outcome,
         inst |-> IF found.outcome = "ok"
                  THEN Instance(c, d, FALSE, None, found.filename,
                                IF c = "ObjectDatum" THEN "pkl" ELSE "", <<>>)
                  ELSE Absent]

\* Datum.from_definition: [outcome, inst].
FromDefinition(d, dsk) ==
    CASE d.type = "file" -> NewFileDatum("FileDatum", d, dsk)
      [] d.type = "folder" -> [outcome |-> "ok", inst |-> NewDatum("FolderDatum", d)]
      [] d.type = "dataframe" -> NewFileDatum("DataFrameDatum", d, dsk)
      [] d.type = "object" -> NewFileDatum("ObjectDatum", d, dsk)
      [] d.type = "not_yet_known" ->
            [outcome |-> "ok", inst |-> NewDatum("UnspecifiedDatum", d)]
      [] OTHER -> [outcome |-> "ValueError", inst |-> Absent]

\* Datum.get_type / UnspecifiedDatum.get_type.
GetType(x) == IF x.cls = "UnspecifiedDatum" THEN None ELSE x.def.type

\* Datum.is_committed.
IsCommitted(x) == x.committed

\* The record of a call: which method, on which instance, how it ended, the
\* value it returned (ret) or the instance it returned (retInst, 0: none),
\* and the kind it was asked for when it takes one (arg).
Call(op, i, out, r, ri) ==
    [op |-> op, inst |-> i, outcome |-> out, ret |-> r, retInst |-> ri, arg |-> None]

NoCall == Call("none", 0, "ok", None, 0)

\* The result of a method: how it ended, the instance and its folder after
\* it, and the value returned.
Result(out, x, f, r) == [outcome |-> out, inst |-> x, folder |-> f, ret |-> r]

\* The two RuntimeErrors of persistance.py, told apart by their message.
CommitError == "RuntimeError: Cannot modify data of an already committed datum."
NoFileError == "RuntimeError: No single file inside the datum."

(* FolderDatum / FileDatum *)

\* FolderDatum.commit_folder.
CommitFolder(x) == [x EXCEPT !.committed = TRUE]

\* FileDatum.commit_file.
CommitFile(x) == [x EXCEPT !.committed = TRUE]

\* FileDatum.open_binary: the entry opened, or the error raised.
OpenBinary(x, f) ==
    IF x.filename = NoName THEN NoFileError
    ELSE IF ~HasFile(f, x.filename) THEN "FileNotFoundError"
    ELSE "ok"

(* DataFrameDatum *)

DfName == FileName(FALSE, "df", "parquet")

\* DataFrameDatum.get_df.
GetDf(x, f) ==
    IF x.mem # None THEN Result("ok", x, f, x.mem)
    ELSE IF OpenBinary(x, f) # "ok" THEN Result(OpenBinary(x, f), x, f, None)
    ELSE IF FileAt(f, x.filename).fmt # "parquet" THEN Result("ArrowInvalid", x, f, None)
    ELSE Result("ok", [x EXCEPT !.mem = FileAt(f, x.filename).val], f,
                FileAt(f, x.filename).val)

\* The guard of DataFrameDatum.set_df.
SetDfMutantGuard(x) == x.mem # None

SetDfCommittedGuard(x) == x.committed

SetDfGuard(x) == x.committed \/ x.mem # None

\* DataFrameDatum.set_df followed by _save_df.
SetDfCommits(x, df, f) ==
    IF SetDfGuard(x) THEN Result(CommitError, x, f, None)
    ELSE IF ~f.exists THEN Result("OSError", [x EXCEPT !.mem = df], f, None)
    ELSE Result("ok", [x EXCEPT !.mem = df, !.committed = TRUE],
                WriteFile(f, DfName, "parquet", df), None)

SetDf(x, df, f) ==
    IF SetDfGuard(x) THEN Result(CommitError, x, f, None)
    ELSE IF ~f.exists THEN Result("OSError", [x EXCEPT !.mem = df], f, None)
    ELSE Result("ok", [x EXCEPT !.mem = df], WriteFile(f, DfName, "parquet", df), None)

\* DataFrameDatum.clear / ObjectDatum.clear.
ClearMutant(x) == [x EXCEPT !.mem = None, !.committed = FALSE]

Clear(x) == [x EXCEPT !.mem = None]

(* ObjectDatum *)

KnownExtensions == {"pkl", "pickle", "json", "yaml", "yml", "toml"}

\* The extension get_object remembers for a file whose name ends in ext.
RememberedExt(ext) == IF ext \in KnownExtensions THEN ext ELSE "pkl"

\* The format the decoder get_object picks for ext reads.
DecoderOf(ext) ==
    CASE ext \in {"pkl", "pickle"} -> "pkl"
      [] ext = "json" -> "json"
      [] ext \in {"yaml", "yml"} -> "yaml"
      [] ext = "toml" -> "toml"
      [] OTHER -> "pkl"

\* Whether a decoder reads a file written as fmt (JSON text is YAML too).
Decodes(dec, fmt) == dec = fmt \/ (dec = "yaml" /\ fmt = "json")

\* ObjectDatum.get_object.
GetObject(x, f) ==
    IF x.mem # None THEN Result("ok", x, f, x.mem)
    ELSE IF x.filename = NoName THEN Result("AttributeError", x, f, None)
    ELSE IF OpenBinary(x, f) # "ok" THEN Result(OpenBinary(x, f), x, f, None)
    ELSE IF ~Decodes(DecoderOf(x.filename.ext), FileAt(f, x.filename).fmt)
         THEN Result("DecodeError", x, f, None)
    ELSE Result("ok",
                [x EXCEPT !.mem = FileAt(f, x.filename).val,
                          !.extension = RememberedExt(x.filename.ext)],
                f, FileAt(f, x.filename).val)

\* The guard of ObjectDatum.set_object.
SetObjectGuard(x) == x.committed

\* The format _save_object writes for self.extension ("x in 'pkl'" is a
\* substring test), "unsupported" when no branch takes it.
SaveFormat(ext) ==
    CASE ext \in {"pkl", "pk", "kl", "p", "k", "l", ""} -> "pkl"
      [] ext = "json" -> "json"
      [] ext \in {"yaml", "yml"} -> "yaml"
      [] ext = "toml" -> "toml"
      [] OTHER -> "unsupported"

\* A mapping, the one kind of value a TOML document holds.
Table == "{'k': 1}"

\* Whether the serializer for fmt accepts the value (tomlkit needs a mapping).
Serializes(fmt, v) == fmt = "toml" => v = Table

\* ObjectDatum.set_object followed by _save_object.
SetObjectMutant(x, data, f) ==
    LET name == FileName(FALSE, "object", x.extension)
        held == [x EXCEPT !.mem = data, !.committed = TRUE]
    IN  IF SetObjectGuard(x) THEN Result(CommitError, x, f, None)
        ELSE IF ~f.exists THEN Result("FileNotFoundError", held, f, None)
        ELSE IF SaveFormat(x.extension) = "unsupported"
             THEN Result("ValueError", held, WriteFile(f, name, "empty", None), None)
        ELSE IF ~Serializes(SaveFormat(x.extension), data)
             THEN Result("TypeError", held, WriteFile(f, name, "empty", None), None)
        ELSE Result("ok", held,
                    WriteFile(f, name, SaveFormat(x.extension), data), None)

SetObject(x, data, f) ==
    LET name == FileName(FALSE, "object", x.extension)
        held == [x EXCEPT !.mem = data]
    IN  IF SetObjectGuard(x) THEN Result(CommitError, x, f, None)
        ELSE IF ~f.exists THEN Result("FileNotFoundError", held, f, None)
        ELSE IF SaveFormat(x.extension) = "unsupported"
             THEN Result("ValueError", held, WriteFile(f, name, "empty", None), None)
        ELSE IF ~Serializes(SaveFormat(x.extension), data)
             THEN Result("TypeError", held, WriteFile(f, name, "empty", None), None)
        ELSE Result("ok", [held EXCEPT !.committed = TRUE],
                    WriteFile(f, name, SaveFormat(x.extension), data), None)

(* UnspecifiedDatum / DatumFactory *)

\* What promote hands back: the datum built, and self as the call leaves it.
Promoted(built, self) == [outcome |-> built.outcome, inst |-> built.inst, self |-> self]

\* UnspecifiedDatum.promote: the copy of the definition gets the new type,
\* and the datum is built from self._definition; [outcome, inst, self], self
\* being the datum promote was called on as the call leaves it.
PromoteMutant(x, newType, dsk) ==
    LET definition == [x.def EXCEPT !.type = newType]
    IN  Promoted(FromDefinition(definition, dsk), [x EXCEPT !.def = definition])

Promote(x, newType, dsk) ==
    LET definition == [x.def EXCEPT !.type = newType]
    IN  Promoted(FromDefinition(x.def, dsk), x)

\* DatumFactory.__init__.
NewFactory(d) == NewDatum("DatumFactory", d)

\* The definition DatumFactory.create_datum builds for its next child.
ChildDefinition(x, uuid) == [x.def EXCEPT !.path = [base |-> x.def.path.base, sub |-> uuid]]

\* DatumFactory.get_generated_datums.
GetGeneratedDatumsMutant(x) == x.generated

GetGeneratedDatums(x) == SelectSeq(x.generated, LAMBDA j : IsCommitted(datums[j]))

-----------------------------------------------------------------------------
(* communication.py: the protocol *)

\* CommandName, from runtime to cubelet and from cubelet to runtime.
RequestCommands == {"GET_JOB", "JOB_FINISHED", "CREATE_DATUM", "COMMIT_DATUM"}
ResponseCommands == {"JOB_DEFINITION", "DATUM_DEFINITION", "ACK", "STOP", "ERROR"}
CommandName == RequestCommands \cup ResponseCommands

\* Message(command, data); data defaults to an empty dict.
Message(c, d) == [command |-> c, data |-> d]
EmptyData == [kind |-> "dict"]
NoMessage == Message("none", EmptyData)

(* component_definition.py: TaskDefinition and JobDefinition *)

\* A field the wire object leaves out.
Missing == "<missing>"

\* One entry of input_data / output_data: slot name -> DatumDefinition. A
\* dict is the sequence of its entries, in insertion order.
Binding(n, d) == [name |-> n, def |-> d]

\* A task as it arrives on the wire.
WireTask(c, lib, ins, outs) ==
    [component |-> c, library |-> lib, input_data |-> ins, output_data |-> outs]

\* TaskDefinition.model_validate: library defaults to "local".
TaskDefinition(w) == [w EXCEPT !.library = IF @ = Missing THEN "local" ELSE @]

\* JobDefinition.model_validate.
JobDefinition(data) ==
    [tasks |-> [k \in 1..Len(data.tasks) |-> TaskDefinition(data.tasks[k])]]

(* communication.py: CommunicationBackend *)

\* How a backend method ends: [outcome, ret].
Returned(r) == [outcome |-> "ok", ret |-> r]
Raised(e) == [outcome |-> e, ret |-> EmptyData]
ReturnedNone == [outcome |-> "ok", ret |-> [kind |-> "None"]]

\* CommunicationBackend.get_job, given the response to GET_JOB.
GetJobMutant(response) ==
    IF response.command = "JOB_DEFINITION" THEN Returned(JobDefinition(response.data))
    ELSE ReturnedNone

GetJob(response) ==
    IF response.command = "STOP" THEN ReturnedNone
    ELSE IF response.command = "JOB_DEFINITION"
         THEN Returned(JobDefinition(response.data))
    ELSE Raised("ValueError")

\* CommunicationBackend.create_datum, given the response to CREATE_DATUM.
CreateDatum(response) ==
    IF response.command = "DATUM_DEFINITION" THEN Returned(response.data)
    ELSE Raised("ValueError")

\* CommunicationBackend.commit_datum, given the response to COMMIT_DATUM.
CommitDatum(response) ==
    IF response.command # "ACK" THEN Raised("ValueError") ELSE ReturnedNone

\* CommunicationBackend.notify_job_completion, given the response to
\* JOB_FINISHED.
NotifyJobCompletion(response) ==
    IF response.command # "ACK" THEN Raised("ValueError") ELSE ReturnedNone

\* The record of a backend call: the method, the message it sent, the
\* response _send_message handed back, and how the method ended.
BackendCall(m, req, resp, res) ==
    [method |-> m, request |-> req, response |-> resp, outcome |-> res.outcome,
     ret |-> res.ret]

NoBackendCall == BackendCall("none", NoMessage, NoMessage, ReturnedNone)

(* communication.py: SimpleCliCommunicationBackend *)

\* The data of an ERROR answer.
ErrorData(msg) == [kind |-> "dict", msg |-> msg]

\* The job _parse_job is meant to rebuild from the arguments: one task.
CliJob == JobDefinition([tasks |-> <<WireTask("noop", "local", <<>>, <<>>)>>])

\* self.job when there is none.
NoJob == ReturnedNone.ret

\* The fields of the backend that _send_message reads and writes.
SimpleCli(j, completed) == [job |-> j, job_completed |-> completed]

\* __init__: the job is kept, job_completed starts false.
CliConstructed == SimpleCli(CliJob, FALSE)

\* SimpleCliCommunicationBackend._send_message: [state, response].
SimpleCliForgets(st, message) ==
    CASE message.command = "GET_JOB" ->
            [state |-> st,
             response |-> IF st.job # NoJob THEN Message("JOB_DEFINITION", st.job)
                          ELSE Message("STOP", EmptyData)]
      [] message.command = "JOB_FINISHED" ->
            [state |-> st, response |-> Message("ACK", EmptyData)]
      [] message.command = "CREATE_DATUM" ->
            [state |-> st, response |-> Message("ERROR", ErrorData("no datum creation"))]
      [] message.command = "COMMIT_DATUM" ->
            [state |-> st, response |-> Message("ACK", EmptyData)]
      [] OTHER ->
            [state |-> st, response |-> Message("ERROR", ErrorData("unknown command"))]

SimpleCliStrict(st, message) ==
    CASE message.command = "GET_JOB" ->
            [state |-> st,
             response |-> IF st.job # NoJob THEN Message("JOB_DEFINITION", st.job)
                          ELSE Message("STOP", EmptyData)]
      [] message.command = "JOB_FINISHED" ->
            IF st.job_completed
            THEN [state |-> st,
                  response |-> Message("ERROR", ErrorData("job already completed"))]
            ELSE [state |-> [st EXCEPT !.job_completed = TRUE],
                  response |-> Message("ACK", EmptyData)]
      [] message.command = "CREATE_DATUM" ->
            [state |-> st, response |-> Message("ERROR", ErrorData("no datum creation"))]
      [] message.command = "COMMIT_DATUM" ->
            [state |-> st,
             response |-> IF st.job_completed
                          THEN Message("ERROR", ErrorData("job already completed"))
                          ELSE Message("ACK", EmptyData)]
      [] OTHER ->
            [state |-> st, response |-> Message("ERROR", ErrorData("unknown command"))]

SimpleCliSendMessage(st, message) ==
    CASE message.command = "GET_JOB" ->
            [state |-> st,
             response |-> IF st.job # NoJob THEN Message("JOB_DEFINITION", st.job)
                          ELSE Message("STOP", EmptyData)]
      [] message.command = "JOB_FINISHED" ->
            IF st.job_completed
            THEN [state |-> st,
                  response |-> Message("ERROR", ErrorData("job already completed"))]
            ELSE [state |-> [st EXCEPT !.job_completed = TRUE],
                  response |-> Message("ACK", EmptyData)]
      [] message.command = "CREATE_DATUM" ->
            [state |-> st, response |-> Message("ERROR", ErrorData("no datum creation"))]
      [] message.command = "COMMIT_DATUM" ->
            [state |-> st, response |-> Message("ACK", EmptyData)]
      [] OTHER ->
            [state |-> st, response |-> Message("ERROR", ErrorData("unknown command"))]

\* One call of _send_message as the log keeps it.
Exchange(request, response) == [request |-> request, response |-> response]

(* runtimes.py: Runtime.__init__ *)

BackendIdle == bcall = NoBackendCall

RuntimeIdle ==
    /\ pc = "start"
    /\ err = "none"
    /\ stdout = <<>>
    /\ inCount = 0
    /\ skipped = 0
    /\ pending = "none"
    /\ job = <<>>
    /\ taskIdx = 0
    /\ jobsReceived = 0
    /\ toCommit = <<>>
    /\ datum_cache = [h \in Hashes |-> 0]
    /\ resolved = <<>>
    /\ stdin = [lines |-> <<>>, pos |-> 0, closed |-> FALSE]
    /\ reads = <<>>
    /\ parsed = <<>>
    /\ buildLog = <<>>
    /\ events = <<>>
    /\ cli = CliConstructed
    /\ cliLog = <<>>
    /\ ran = <<>>
    /\ cast = <<>>

-----------------------------------------------------------------------------
(* The datum API under any sequence of calls (SpecDatum) *)

DatumInit ==
    /\ disk \in { d \in [Paths -> InitFolders] :
                    \A p \in Paths : p.sub # 0 => d[p] = NoDir }
    /\ datums = [i \in AllIds |-> Absent]
    /\ lastOp = NoCall
    /\ nextUuid = 0
    /\ BackendIdle
    /\ RuntimeIdle

\* The effect of a method that ended with result r on instance i.
Apply(op, i, r) ==
    /\ datums' = [datums EXCEPT ![i] = r.inst]
    /\ disk' = [disk EXCEPT ![datums[i].def.path] = r.folder]
    /\ lastOp' = Call(op, i, r.outcome, r.ret, 0)
    /\ UNCHANGED <<nextUuid, bcall, runtimeVars>>

\* The effect of a constructor that ended with result r.
Construct(op, i, r) ==
    /\ datums' = IF r.outcome = "ok" THEN [datums EXCEPT ![FreeId] = r.inst] ELSE datums
    /\ lastOp' = Call(op, i, r.outcome, None, IF r.outcome = "ok" THEN FreeId ELSE 0)
    /\ UNCHANGED <<disk, bcall, runtimeVars>>

DoFromDefinition ==
    \E d \in Definitions :
        /\ FreeId \in InstIds
        /\ Construct("from_definition", 0, FromDefinition(d, disk))
        /\ UNCHANGED nextUuid

DoNewFactory ==
    \E d \in Definitions :
        /\ FreeId \in InstIds
        /\ Construct("DatumFactory", 0, [outcome |-> "ok", inst |-> NewFactory(d)])
        /\ UNCHANGED nextUuid

DoPromote ==
    \E i \in InstIds, t \in DatumTypes \ {"not_yet_known"} :
        /\ datums[i].cls = "UnspecifiedDatum"
        /\ FreeId \in InstIds
        /\ LET r == Promote(datums[i], t, disk)
           IN  /\ datums' = IF r.outcome = "ok"
                            THEN [datums EXCEPT ![i] = r.self, ![FreeId] = r.inst]
                            ELSE [datums EXCEPT ![i] = r.self]
               /\ lastOp' = [Call("promote", i, r.outcome, None,
                                  IF r.outcome = "ok" THEN FreeId ELSE 0)
                               EXCEPT !.arg = t]
        /\ UNCHANGED <<disk, nextUuid, bcall, runtimeVars>>

\* DatumFactory.create_datum: the child is appended only when it was built.
DoCreateDatum ==
    \E i \in InstIds :
        /\ datums[i].cls = "DatumFactory"
        /\ FreeId \in InstIds
        /\ nextUuid < MaxUuid
        /\ LET r == FromDefinition(ChildDefinition(datums[i], nextUuid + 1), disk)
           IN  /\ datums' = IF r.outcome = "ok"
                            THEN [datums EXCEPT
                                    ![FreeId] = r.inst,
                                    ![i].generated = Append(@, FreeId)]
                            ELSE datums
               /\ lastOp' = Call("create_datum", i, r.outcome, None,
                                 IF r.outcome = "ok" THEN FreeId ELSE 0)
        /\ nextUuid' = nextUuid + 1
        /\ UNCHANGED <<disk, bcall, runtimeVars>>

DoCommitFolder ==
    \E i \in InstIds :
        /\ datums[i].cls = "FolderDatum"
        /\ Apply("commit_folder", i,
                 Result("ok", CommitFolder(datums[i]), disk[datums[i].def.path], None))

DoCommitFile ==
    \E i \in InstIds :
        /\ datums[i].cls \in {"FileDatum", "DataFrameDatum", "ObjectDatum"}
        /\ Apply("commit_file", i,
                 Result("ok", CommitFile(datums[i]), disk[datums[i].def.path], None))

DoGetDf ==
    \E i \in InstIds :
        /\ datums[i].cls = "DataFrameDatum"
        /\ Apply("get_df", i, GetDf(datums[i], disk[datums[i].def.path]))

DoSetDf ==
    \E i \in InstIds, df \in DfValues :
        /\ datums[i].cls = "DataFrameDatum"
        /\ Apply("set_df", i, SetDf(datums[i], df, disk[datums[i].def.path]))

DoGetObject ==
    \E i \in InstIds :
        /\ datums[i].cls = "ObjectDatum"
        /\ Apply("get_object", i, GetObject(datums[i], disk[datums[i].def.path]))

DoSetObject ==
    \E i \in InstIds, data \in ObjValues :
        /\ datums[i].cls = "ObjectDatum"
        /\ Apply("set_object", i, SetObject(datums[i], data, disk[datums[i].def.path]))

DoClear ==
    \E i \in InstIds :
        /\ datums[i].cls \in {"DataFrameDatum", "ObjectDatum"}
        /\ Apply("clear", i, Result("ok", Clear(datums[i]), disk[datums[i].def.path],
                               None))

DatumNext ==
    \/ DoFromDefinition
    \/ DoNewFactory
    \/ DoPromote
    \/ DoCreateDatum
    \/ DoCommitFolder
    \/ DoCommitFile
    \/ DoGetDf
    \/ DoSetDf
    \/ DoGetObject
    \/ DoSetObject
    \/ DoClear

SpecDatum == DatumInit /\ [][DatumNext]_vars

-----------------------------------------------------------------------------
(* Properties of the datum API *)

Setters == {"set_df", "set_object"}
Getters == {"get_df", "get_object"}

\* The content a get has to hand: what is held in memory, else what the file
\* located at construction holds, when the decoder picked for it reads it.
Loadable(x, f) ==
    \/ x.mem # None
    \/ /\ x.filename # NoName
       /\ HasFile(f, x.filename)
       /\ IF x.cls = "DataFrameDatum"
          THEN FileAt(f, x.filename).fmt = "parquet"
          ELSE Decodes(DecoderOf(x.filename.ext), FileAt(f, x.filename).fmt)

Content(x, f) == IF x.mem # None THEN x.mem ELSE FileAt(f, x.filename).val

C10_CommittedOneWay ==
    [][\A i \in InstIds :
          /\ (~Live(i) /\ datums'[i].cls # "absent") => ~datums'[i].committed
          /\ datums[i].committed => datums'[i].committed]_vars

\* C10 witness: clear() has just run on a committed datum, which is still
\* committed.
C10_Witness ==
    \E i \in InstIds :
        /\ datums[i].committed
        /\ lastOp.op = "clear" /\ lastOp.inst = i /\ lastOp.outcome = "ok"

-----------------------------------------------------------------------------
(* The jobs a controller sends *)

HashedDef == DatumDefinition(PathOf("data"), "object", "h1")
FreshDef == DatumDefinition(PathOf("data"), "object", None)

\* The definitions that travel in tasks and COMMIT_DATUM messages.
TaskDefs == {HashedDef, FreshDef}

NoopTask == WireTask("NoOp", Missing, <<>>, <<>>)
BoomTask == WireTask("boom", "local", <<>>, <<>>)
CopyTask ==
    WireTask("copy", "local", <<Binding("src", HashedDef)>>, <<Binding("dst", FreshDef)>>)
WriteTask == WireTask("write", "local", <<>>, <<Binding("dst", FreshDef)>>)
BareCopyTask == WireTask("copy", "local", <<>>, <<>>)
UnknownTask == WireTask("nope", "local", <<>>, <<>>)
ForeignTask == WireTask("noop", "other", <<>>, <<>>)

TaskPool ==
    {NoopTask, BoomTask, CopyTask, WriteTask, BareCopyTask, UnknownTask, ForeignTask}

\* The bodies of JOB_DEFINITION messages: up to MaxTasks tasks each.
WireJobs ==
    { [tasks |-> ts] : ts \in UNION { [1..n -> TaskPool] : n \in 0..MaxTasks } }

\* The messages a controller, or a mocked _send_message, may answer with:
\* any of the nine commands, with a body of the command's kind.
Messages ==
    { Message(c, EmptyData) : c \in CommandName \ {"JOB_DEFINITION", "DATUM_DEFINITION"} }
    \cup { Message("JOB_DEFINITION", j) : j \in WireJobs }
    \cup { Message("DATUM_DEFINITION", d) : d \in TaskDefs }

\* The responses a mocked _send_message returns: jobs of at most one task.
MockMessages ==
    { m \in Messages : m.command = "JOB_DEFINITION" => Len(m.data.tasks) <= 1 }

-----------------------------------------------------------------------------
(* The backend methods called directly over a mocked _send_message
   (SpecBackend), as tests/test_communication.py calls them *)

DoGetJob ==
    \E response \in MockMessages :
        /\ bcall' = BackendCall("get_job", Message("GET_JOB", EmptyData), response,
                              GetJob(response))
        /\ UNCHANGED <<datumVars, runtimeVars>>

DoCreateDatumRequest ==
    \E response \in MockMessages :
        /\ bcall' = BackendCall("create_datum", Message("CREATE_DATUM", EmptyData),
                              response, CreateDatum(response))
        /\ UNCHANGED <<datumVars, runtimeVars>>

DoCommitDatum ==
    \E datum \in TaskDefs, response \in MockMessages :
        /\ bcall' = BackendCall("commit_datum", Message("COMMIT_DATUM", datum),
                              response, CommitDatum(response))
        /\ UNCHANGED <<datumVars, runtimeVars>>

DoNotifyJobCompletion ==
    \E j \in {JobDefinition(w) : w \in WireJobs}, response \in MockMessages :
        /\ Len(j.tasks) <= 1
        /\ bcall' = BackendCall("notify_job_completion", Message("JOB_FINISHED", j),
                              response, NotifyJobCompletion(response))
        /\ UNCHANGED <<datumVars, runtimeVars>>

BackendInit ==
    /\ disk = [p \in Paths |-> NoDir]
    /\ datums = [i \in AllIds |-> Absent]
    /\ lastOp = NoCall
    /\ nextUuid = 0
    /\ BackendIdle
    /\ RuntimeIdle

BackendNext ==
    \/ DoGetJob
    \/ DoCreateDatumRequest
    \/ DoCommitDatum
    \/ DoNotifyJobCompletion

SpecBackend == BackendInit /\ [][BackendNext]_vars

-----------------------------------------------------------------------------
(* catalog_base.py and component_definition.py: the catalog *)

\* str.lower() on the names the model uses.
Lower(str) ==
    CASE str = "NoOp" -> "noop"
      [] str = "LOCAL" -> "local"
      [] OTHER -> str

\* SlotDefinition(name, required, multiple, type)
SlotDefinition(n, req, mult, t) ==
    [name |-> n, required |-> req, multiple |-> mult, type |-> t]

\* Component: its name, its slots in declaration order, and whether its
\* runnable raises when called.
Component(n, ins, outs, r) ==
    [name |-> n, input_slots |-> ins, output_slots |-> outs, raises |-> r]

NoComponent == Component("", <<>>, <<>>, FALSE)

\* The components registered in the catalog the runtime is given.
Components ==
    { Component("noop", <<>>, <<>>, FALSE),
      Component("boom", <<>>, <<>>, TRUE),
      Component("copy", <<SlotDefinition("src", TRUE, FALSE, "object")>>,
                <<SlotDefinition("dst", TRUE, FALSE, "object")>>, FALSE),
      Component("write", <<>>, <<SlotDefinition("dst", TRUE, FALSE, "object")>>, FALSE) }

\* Catalog.name of that catalog.
CatalogName == "local"

\* Catalog.get_component: [outcome, component].
GetComponentMutant(name, library) ==
    IF \A c \in Components : Lower(c.name) # Lower(name)
    THEN [outcome |-> "ValueError", component |-> NoComponent]
    ELSE [outcome |-> "ok",
          component |-> CHOOSE c \in Components : Lower(c.name) = Lower(name)]

GetComponent(name, library) ==
    IF library # None /\ Lower(library) # Lower(CatalogName)
    THEN [outcome |-> "ValueError", component |-> NoComponent]
    ELSE IF \A c \in Components : Lower(c.name) # Lower(name)
         THEN [outcome |-> "ValueError", component |-> NoComponent]
    ELSE [outcome |-> "ok",
          component |-> CHOOSE c \in Components : Lower(c.name) = Lower(name)]

\* The io_type of a datum: the class attribute, or for a DatumFactory the
\* type of its definition.
IoType(x) ==
    CASE x.cls = "FolderDatum" -> "folder"
      [] x.cls = "FileDatum" -> "file"
      [] x.cls = "DataFrameDatum" -> "dataframe"
      [] x.cls = "ObjectDatum" -> "object"
      [] x.cls = "DatumFactory" -> x.def.type
      [] OTHER -> "not_yet_known"

Names(seq) == {seq[k].name : k \in 1..Len(seq)}

\* A slot bound to None.
NoneDatum == [Absent EXCEPT !.cls = "NoneType"]

\* extra_validation of Component._validate_inputs for one provided datum:
\* None has no io_type, an UnspecifiedDatum is promoted, any other type
\* mismatch raises.
ValidInput(x, slot, dsk) ==
    IF x.cls = "NoneType" THEN "AttributeError"
    ELSE IF IoType(x) = slot.type THEN "ok"
    ELSE IF x.cls = "UnspecifiedDatum" THEN Promote(x, slot.type, dsk).outcome
    ELSE "ValueError"

\* extra_validation of Component._validate_outputs for the datum x, once
\* promoted if it was unspecified.
ValidPromoted(x, slot, promoted) ==
    LET value == IF slot.multiple /\ promoted.inst.cls # "DatumFactory"
                 THEN NewFactory(promoted.inst.def)
                 ELSE promoted.inst
    IN  IF x.cls = "NoneType" THEN "AttributeError"
        ELSE IF promoted.outcome # "ok" THEN promoted.outcome
        ELSE IF IoType(value) # slot.type THEN "ValueError"
        ELSE "ok"

ValidOutput(x, slot, dsk) ==
    ValidPromoted(x, slot, IF x.cls = "UnspecifiedDatum"
                           THEN Promote(x, slot.type, dsk)
                           ELSE [outcome |-> "ok", inst |-> x])

\* The value a dict (the sequence of its entries) holds under name.
ValueOf(provided, name) ==
    provided[CHOOSE j \in 1..Len(provided) : provided[j].name = name].inst

ValidateLenient(provided, expected, verdicts) ==
    IF \E k \in 1..Len(expected) :
          expected[k].name \in Names(provided) /\ verdicts[k] = "ValueError"
    THEN "ValueError"
    ELSE IF Names(provided) \ Names(expected) # {} THEN "Warning"
    ELSE "ok"

\* Component._validate: every expected slot is taken in turn (a required one
\* that is not provided raises ValueError, a provided one goes through the
\* validator, whose outcome for slot k is verdicts[k]) and the first failure
\* ends it; then a provided name that is not expected raises Warning.
Validate(provided, expected, verdicts) ==
    LET ends(k) == IF expected[k].name \in Names(provided) THEN verdicts[k]
                   ELSE IF expected[k].required THEN "ValueError"
                   ELSE "ok"
    IN  IF \E k \in 1..Len(expected) : ends(k) # "ok"
        THEN ends(CHOOSE k \in 1..Len(expected) :
                    ends(k) # "ok" /\ \A j \in 1..(k - 1) : ends(j) = "ok")
        ELSE IF Names(provided) \ Names(expected) # {} THEN "Warning"
        ELSE "ok"

\* How run ends once the inputs (ins) and the outputs (outs) went through
\* _validate: [outcome, called, params].
Ran(ins, outs, raises, params) ==
    IF ins # "ok" THEN [outcome |-> ins, called |-> FALSE, params |-> {}]
    ELSE IF outs # "ok" THEN [outcome |-> outs, called |-> FALSE, params |-> {}]
    ELSE IF raises THEN [outcome |-> "ComponentError", called |-> TRUE, params |-> params]
    ELSE [outcome |-> "ok", called |-> TRUE, params |-> params]

\* Component.run: inputs, then outputs are validated (the components of the
\* model declare no options, and the tasks carry none), then the runnable is
\* called with the validated slots (params: a slot that is not required and
\* not provided is left out, a SlotDefinition has no default). provided
\* entries are [name, inst].
ComponentRun(c, input_data, output_data, dsk) ==
    Ran(Validate(input_data, c.input_slots,
                 [k \in 1..Len(c.input_slots) |->
                    IF c.input_slots[k].name \in Names(input_data)
                    THEN ValidInput(ValueOf(input_data, c.input_slots[k].name),
                                    c.input_slots[k], dsk)
                    ELSE "ok"]),
        Validate(output_data, c.output_slots,
                 [k \in 1..Len(c.output_slots) |->
                    IF c.output_slots[k].name \in Names(output_data)
                    THEN ValidOutput(ValueOf(output_data, c.output_slots[k].name),
                                     c.output_slots[k], dsk)
                    ELSE "ok"]),
        c.raises, Names(input_data) \cup Names(output_data))

-----------------------------------------------------------------------------
(* communication.py: TerminalCommunicationBackend *)

\* _send_message: the message is printed, then the method blocks in
\* get_response.
SendMessageMutant(out, message) == [stdout |-> Append(out, message), pc |-> "returned"]

SendMessage(out, message) == [stdout |-> Append(out, message), pc |-> "await"]

\* What the backend method that is waiting makes of the response.
MethodResult(method, response) ==
    CASE method = "get_job" -> GetJob(response)
      [] method = "create_datum" -> CreateDatum(response)
      [] method = "commit_datum" -> CommitDatum(response)
      [] OTHER -> NotifyJobCompletion(response)

\* A backend method is entered: its request goes out.
Send(method, message) ==
    LET sent == SendMessage(stdout, message)
    IN  /\ stdout' = sent.stdout
        /\ pc' = sent.pc
        /\ pending' = method
        /\ skipped' = 0

\* get_response reads a line that does not start with IN_SEPARATOR:
\* _parse_line returns None and the loop goes on.
ReadForeignLine ==
    /\ pc = "await"
    /\ skipped < MaxNoise
    /\ skipped' = skipped + 1
    /\ UNCHANGED <<datumVars, bcall, pc, err, stdout, inCount, pending, job, taskIdx,
                   jobsReceived, toCommit, cli, cliLog, ran, cast, stdin, reads,
                   parsed, buildLog, datum_cache,
                   resolved, events>>

\* Standard input ends: the for loop of get_response falls through, None is
\* returned, and the method fails on response.command.
ReadEndOfInput ==
    /\ pc = "await"
    /\ bcall' = BackendCall(pending, stdout[Len(stdout)], NoMessage,
                            Raised("AttributeError"))
    /\ pc' = "returned"
    /\ UNCHANGED <<datumVars, err, stdout, inCount, skipped, pending, job, taskIdx,
                   jobsReceived, toCommit, cli, cliLog, ran, cast, stdin, reads,
                   parsed, buildLog, datum_cache,
                   resolved, events>>

\* A line starts with IN_SEPARATOR but does not hold a Message:
\* model_validate_json raises out of the method.
ReadMalformedLine ==
    /\ pc = "await"
    /\ bcall' = BackendCall(pending, stdout[Len(stdout)], NoMessage,
                            Raised("ValidationError"))
    /\ pc' = "returned"
    /\ UNCHANGED <<datumVars, err, stdout, inCount, skipped, pending, job, taskIdx,
                   jobsReceived, toCommit, cli, cliLog, ran, cast, stdin, reads,
                   parsed, buildLog, datum_cache,
                   resolved, events>>

\* A line holds a Message, one of those the controller may write:
\* get_response returns it and the method ends.
ReadFrom(controller) ==
    \E response \in controller :
        /\ pc = "await"
        /\ response.command = "JOB_DEFINITION" => jobsReceived < MaxJobs
        /\ inCount' = inCount + 1
        /\ jobsReceived' =
              IF response.command = "JOB_DEFINITION" THEN jobsReceived + 1
              ELSE jobsReceived
        /\ bcall' = BackendCall(pending, stdout[Len(stdout)], response,
                                MethodResult(pending, response))
        /\ pc' = "returned"
        /\ UNCHANGED <<datumVars, err, stdout, skipped, pending, job, taskIdx,
                       toCommit, cli, cliLog, ran, cast, stdin, reads, parsed, buildLog,
                       datum_cache, resolved, events>>

-----------------------------------------------------------------------------
(* The backend methods called one after the other over the terminal
   (SpecTerminal) *)

\* Backend calls one run makes.
MaxCalls == 3

callerFrame ==
    <<datumVars, bcall, err, inCount, job, taskIdx, jobsReceived, toCommit,
      cli, cliLog, ran, cast, stdin, reads, parsed, buildLog, datum_cache, resolved, events>>

CallGetJob ==
    /\ pc = "start" /\ Len(stdout) < MaxCalls
    /\ Send("get_job", Message("GET_JOB", EmptyData))
    /\ UNCHANGED callerFrame

CallCreateDatum ==
    /\ pc = "start" /\ Len(stdout) < MaxCalls
    /\ Send("create_datum", Message("CREATE_DATUM", EmptyData))
    /\ UNCHANGED callerFrame

CallCommitDatum ==
    \E datum \in TaskDefs :
        /\ pc = "start" /\ Len(stdout) < MaxCalls
        /\ Send("commit_datum", Message("COMMIT_DATUM", datum))
        /\ UNCHANGED callerFrame

CallNotifyJobCompletion ==
    /\ pc = "start" /\ Len(stdout) < MaxCalls
    /\ Send("notify_job_completion",
            Message("JOB_FINISHED", JobDefinition([tasks |-> <<NoopTask>>])))
    /\ UNCHANGED callerFrame

\* The controller of this driver answers with jobs of at most one task.
ReadReply == ReadFrom(MockMessages)

\* The caller takes the result and goes on; like Runtime, it catches no
\* exception.
CallerResumes ==
    /\ pc = "returned"
    /\ bcall.outcome = "ok"
    /\ pc' = "start"
    /\ UNCHANGED <<datumVars, bcall, err, stdout, inCount, skipped, pending, job,
                   taskIdx, jobsReceived, toCommit, cli, cliLog, ran, cast, stdin,
                   reads, parsed, buildLog,
                   datum_cache, resolved, events>>

TerminalNext ==
    \/ CallGetJob
    \/ CallCreateDatum
    \/ CallCommitDatum
    \/ CallNotifyJobCompletion
    \/ CallerResumes
    \/ ReadForeignLine
    \/ ReadEndOfInput
    \/ ReadMalformedLine
    \/ ReadReply

SpecTerminal == BackendInit /\ [][TerminalNext]_vars

-----------------------------------------------------------------------------
(* runtimes.py: Runtime *)

\* Datum.datum_factory(datum_definition): the Datum class defines no
\* attribute of that name, so the lookup raises; [outcome, inst].
Datum_datum_factory(datum_definition, dsk) ==
    [outcome |-> "AttributeError", inst |-> Absent]

\* One call of _get_datum as the log keeps it.
Resolution(d, o, i, before, after) ==
    [def |-> d, outcome |-> o, inst |-> i, before |-> before, after |-> after]

\* Runtime._get_datum on the runtime state st = [outcome, datums, cache,
\* insts, log]: the instance comes from datum_factory when the definition has
\* no hash or its hash is not in datum_cache, where it is then stored, and
\* from datum_cache otherwise.
GetDatum(name, d, st, dsk) ==
    LET made == Datum_datum_factory(d, dsk)
        free == Cardinality({i \in InstIds : st.datums[i].cls # "absent"}) + 1
        cached == d.hash # None /\ st.cache[d.hash] # 0
        id == IF cached THEN st.cache[d.hash] ELSE free
        cache == IF cached \/ d.hash = None THEN st.cache
                 ELSE [st.cache EXCEPT ![d.hash] = free]
    IN  IF ~cached /\ made.outcome # "ok"
        THEN [st EXCEPT !.outcome = made.outcome,
                        !.log = Append(@, Resolution(d, made.outcome, 0, st.cache,
                                                     st.cache))]
        ELSE [outcome |-> "ok",
              datums |-> IF cached THEN st.datums
                         ELSE [st.datums EXCEPT ![free] = made.inst],
              cache |-> cache,
              insts |-> Append(st.insts, [name |-> name, id |-> id]),
              log |-> Append(st.log, Resolution(d, "ok", id, st.cache, cache))]

\* Runtime._get_datums: the entries are resolved in dict order; the first
\* one that raises ends the comprehension.
RECURSIVE GetDatums(_, _, _)
GetDatums(datums_definitions, st, dsk) ==
    IF datums_definitions = <<>> \/ st.outcome # "ok" THEN st
    ELSE GetDatums(Tail(datums_definitions),
                   GetDatum(Head(datums_definitions).name,
                            Head(datums_definitions).def, st, dsk),
                   dsk)

\* An exception nothing catches leaves run_task, run_job and start.
PropagateMutant(e) == [pc |-> "start", err |-> e]

Propagate(e) == [pc |-> "failed", err |-> e]

\* The body of the loop of Runtime.start after get_job returned next_job.
StartMutant(next_job) ==
    IF next_job = ReturnedNone.ret THEN "start" ELSE "run_job"

Start(next_job) ==
    IF next_job = ReturnedNone.ret THEN "terminated" ELSE "run_job"

\* Runtime.run_job: the index in job.tasks of the task the for loop takes at
\* its step-th iteration over n tasks.
TaskOrderMutant(n, step) == n + 1 - step

TaskOrder(n, step) == step

\* What the runtime did: kind for the task at index task of the job, def for
\* a COMMIT_DATUM.
Event(kind, task, d) == [kind |-> kind, task |-> task, def |-> d]
NoDef == DatumDefinition(PathOf("data"), "not_yet_known", None)

CurrentTask == TaskOrder(Len(job), taskIdx)

\* The definitions bound in a dict of a task, in order.
DefsOf(bindings) == [k \in 1..Len(bindings) |-> bindings[k].def]

-----------------------------------------------------------------------------
(* Runtime.start over the terminal backend (Spec) *)

\* The controller answers with any message.
ReadMessage == ReadFrom(Messages)

\* start: the loop calls get_job.
StartGetJob ==
    /\ pc = "start"
    /\ Send("get_job", Message("GET_JOB", EmptyData))
    /\ UNCHANGED callerFrame

\* The backend method returns into the runtime: an exception propagates,
\* get_job hands next_job to the loop of start, commit_datum goes back into
\* the loop of commit_datums.
Resume ==
    /\ pc = "returned"
    /\ IF bcall.outcome # "ok"
       THEN /\ pc' = Propagate(bcall.outcome).pc
            /\ err' = Propagate(bcall.outcome).err
            /\ events' = IF taskIdx > 0
                         THEN Append(events, Event("raise", CurrentTask, NoDef))
                         ELSE events
            /\ UNCHANGED <<job, taskIdx, toCommit>>
       ELSE IF pending = "get_job"
       THEN IF Start(bcall.ret) = "run_job"
            THEN /\ job' = bcall.ret.tasks
                 /\ events' = <<>>
                 /\ pc' = IF bcall.ret.tasks = <<>> THEN "start" ELSE "task"
                 /\ taskIdx' = IF bcall.ret.tasks = <<>> THEN 0 ELSE 1
                 /\ UNCHANGED <<err, toCommit>>
            ELSE /\ pc' = Start(bcall.ret)
                 /\ UNCHANGED <<err, job, taskIdx, toCommit, events>>
       ELSE /\ pc' = "commit"
            /\ toCommit' = Tail(toCommit)
            /\ events' = Append(events, Event("committed", CurrentTask,
                                                bcall.request.data))
            /\ UNCHANGED <<err, job, taskIdx>>
    /\ UNCHANGED <<datumVars, bcall, stdout, inCount, skipped, pending, jobsReceived,
                   cli, cliLog, ran, cast, stdin, reads, parsed, buildLog, datum_cache,
                   resolved>>

\* How run_task ends before commit_datums, given the component lookup, the
\* resolved outputs and the run of the component: [outcome, st, events].
RunTaskEnd(found, st0, outs, run) ==
    LET ev(kind) == Event(kind, CurrentTask, NoDef)
    IN  IF found.outcome # "ok"
        THEN [outcome |-> found.outcome, st |-> st0,
              events |-> <<ev("start"), ev("raise")>>]
        ELSE IF outs.outcome # "ok"
        THEN [outcome |-> outs.outcome, st |-> outs,
              events |-> <<ev("start"), ev("raise")>>]
        ELSE IF run.outcome # "ok"
        THEN [outcome |-> run.outcome, st |-> outs,
              events |-> IF run.called
                         THEN <<ev("start"), ev("call"), ev("raise")>>
                         ELSE <<ev("start"), ev("raise")>>]
        ELSE [outcome |-> "ok", st |-> outs,
              events |-> <<ev("start"), ev("call"), ev("return")>>]

\* The dict of instances _get_datums returned in st.
Provided(st, dts) ==
    [j \in 1..Len(st.insts) |->
       [name |-> st.insts[j].name, inst |-> dts[st.insts[j].id]]]

\* run_task leaves as end says.
RunTaskLeaves(end, outs) ==
    /\ events' = events \o end.events
    /\ datums' = end.st.datums
    /\ datum_cache' = end.st.cache
    /\ resolved' = end.st.log
    /\ IF end.outcome # "ok"
       THEN /\ pc' = Propagate(end.outcome).pc
            /\ err' = Propagate(end.outcome).err
            /\ UNCHANGED toCommit
       ELSE /\ pc' = "commit"
            /\ toCommit' = [j \in 1..Len(outs.insts) |-> outs.insts[j].id]
            /\ UNCHANGED err

\* run_task once its input (ins) and output (outs) datums are resolved.
RunTaskResolved(found, st0, ins, outs) ==
    RunTaskLeaves(RunTaskEnd(found, st0, outs,
                             ComponentRun(found.component, Provided(ins, outs.datums),
                                          Provided(outs, outs.datums), disk)),
                  outs)

\* _get_datums(task.output_data), after the inputs.
RunTaskFrom(task, found, st0, ins) ==
    RunTaskResolved(found, st0, ins,
                    GetDatums(task.output_data, [ins EXCEPT !.insts = <<>>], disk))

\* get_component and _get_datums(task.input_data).
RunTaskOf(task, st0) ==
    RunTaskFrom(task, GetComponent(task.component, task.library), st0,
                GetDatums(task.input_data, st0, disk))

\* run_task up to the call of commit_datums: the component is looked up, the
\* input and the output datums are resolved, and the component is run.
RunTask ==
    /\ pc = "task"
    /\ RunTaskOf(job[CurrentTask],
                 [outcome |-> "ok", datums |-> datums, cache |-> datum_cache,
                  insts |-> <<>>, log |-> resolved])
    /\ UNCHANGED <<disk, lastOp, nextUuid, bcall, stdout, inCount, skipped, pending,
                   job, taskIdx, jobsReceived, cli, cliLog, ran, cast, stdin, reads,
                   parsed, buildLog>>

\* commit_datums: the next output datum is committed through the backend
\* (a DatumFactory is asked for generated_datums, which it does not have);
\* when none is left run_task returns and run_job takes the next task, or
\* returns to the loop of start.
CommitDatums ==
    /\ pc = "commit"
    /\ IF toCommit = <<>>
       THEN /\ events' = Append(events, Event("done", CurrentTask, NoDef))
            /\ pc' = IF taskIdx < Len(job) THEN "task" ELSE "start"
            /\ taskIdx' = IF taskIdx < Len(job) THEN taskIdx + 1 ELSE 0
            /\ UNCHANGED <<err, stdout, pending, skipped>>
       ELSE IF datums[Head(toCommit)].cls = "DatumFactory"
       THEN /\ pc' = Propagate("AttributeError").pc
            /\ err' = Propagate("AttributeError").err
            /\ events' = Append(events, Event("raise", CurrentTask, NoDef))
            /\ UNCHANGED <<stdout, pending, skipped, taskIdx>>
       ELSE /\ Send("commit_datum",
                    Message("COMMIT_DATUM", datums[Head(toCommit)].def))
            /\ events' = Append(events, Event("commit", CurrentTask,
                                              datums[Head(toCommit)].def))
            /\ UNCHANGED <<err, taskIdx>>
    /\ UNCHANGED <<datumVars, bcall, inCount, job, jobsReceived, toCommit,
                   cli, cliLog, ran, cast, stdin, reads, parsed, buildLog, datum_cache,
                   resolved>>

\* The folder the datum definitions of the jobs point to holds one object.
Init ==
    /\ disk = [p \in Paths |->
                 IF p.sub = 0
                 THEN Folder(TRUE, {Entry(FileName(FALSE, "data", "pkl"), TRUE, "pkl",
                                          "Hello")})
                 ELSE NoDir]
    /\ datums = [i \in AllIds |-> Absent]
    /\ lastOp = NoCall
    /\ nextUuid = 0
    /\ BackendIdle
    /\ RuntimeIdle

Next ==
    \/ StartGetJob
    \/ ReadForeignLine
    \/ ReadEndOfInput
    \/ ReadMalformedLine
    \/ ReadMessage
    \/ Resume
    \/ RunTask
    \/ CommitDatums

Spec == Init /\ [][Next]_vars

-----------------------------------------------------------------------------
(* Properties of the protocol and of the job loop *)

\* C6 (strict request/response): a request is written only when every
\* earlier request has had its response consumed, one request at a time; a
\* response is consumed only while exactly one request is outstanding, one
\* response at a time; so at most one request is ever outstanding.
C6_StrictRequestResponse ==
    [][/\ stdout' # stdout =>
             /\ inCount = Len(stdout)
             /\ Len(stdout') = Len(stdout) + 1
             /\ SubSeq(stdout', 1, Len(stdout)) = stdout
             /\ inCount' = inCount
       /\ inCount' # inCount =>
             /\ Len(stdout) = inCount + 1
             /\ inCount' = inCount + 1
             /\ stdout' = stdout
       /\ Len(stdout') - inCount' \in {0, 1}]_vars

\* C6 witness: two round trips are complete and a third request, a
\* COMMIT_DATUM, is waiting for its response behind a foreign line.
C6_Witness ==
    /\ Len(stdout) = 3
    /\ inCount = 2
    /\ stdout[3].command = "COMMIT_DATUM"
    /\ pc = "await"
    /\ skipped = 1

\* C7 (shutdown): when get_job answers a GET_JOB with STOP, start returns
\* without an exception and nothing is sent from then on; when it answers
\* with a job, the job's tasks are run, and once the last one is through the
\* next thing the runtime does is send GET_JOB.
C7_Shutdown ==
    [][/\ (pc = "returned" /\ pending = "get_job" /\ bcall.response.command = "STOP") =>
             pc' = "terminated" /\ err' = "none" /\ stdout' = stdout
       /\ pc = "terminated" => UNCHANGED vars
       /\ (pc = "returned" /\ pending = "get_job"
             /\ bcall.response.command = "JOB_DEFINITION") =>
             /\ job' = JobDefinition(bcall.response.data).tasks
             /\ pc' = IF job' = <<>> THEN "start" ELSE "task"
       /\ (pc = "commit" /\ pc' = "start") =>
             \A k \in 1..Len(job) :
                \E a \in 1..Len(events') : events'[a] = Event("done", k, NoDef)
       /\ (pc = "start" /\ pc' # "start") =>
             stdout' = Append(stdout, Message("GET_JOB", EmptyData))]_vars

\* C7 witness: a job with a task was run, GET_JOB was sent again, STOP came
\* back and start has returned.
C7_Witness ==
    /\ pc = "terminated"
    /\ err = "none"
    /\ Len(stdout) = 2
    /\ job # <<>>
    /\ bcall.response.command = "STOP"

\* C8 (no retries, no rollback): whatever raises while a task is resolved,
\* validated, run or committed, or in get_job, leaves start with that
\* exception; from then on nothing changes: the task is not run again, no
\* other task is run, and no message (GET_JOB, or one undoing a commit) is
\* written.
C8_NoRetryNoRollback ==
    [][/\ err' # "none" => pc' = "failed"
       /\ err # "none" => UNCHANGED vars
       /\ (pc = "returned" /\ bcall.outcome # "ok") => err' = bcall.outcome
       /\ (events' # events /\ events' # <<>>
             /\ events'[Len(events')].kind = "raise") => err' # "none"]_vars

\* C8 witness: the first of two tasks raised after its component was called;
\* the second was never started.
C8_Witness ==
    /\ pc = "failed"
    /\ err = "ComponentError"
    /\ Len(job) = 2
    /\ \A a \in 1..Len(events) : events[a].task = 1
    /\ \E a \in 1..Len(events) : events[a].kind = "call"

\* C9 (sequential execution): what the runtime does for the tasks of a job
\* follows the order of the list; a task is started once, and only after
\* every task before it is through with its component call and its commits.
C9_Sequential ==
    /\ \A a, b \in 1..Len(events) : a < b => events[a].task <= events[b].task
    /\ \A b \in 1..Len(events) :
          events[b].kind = "start" =>
             /\ \A a \in 1..(b - 1) : events[a] # events[b]
             /\ \A k \in 1..(events[b].task - 1) :
                   \E a \in 1..(b - 1) : events[a] = Event("done", k, NoDef)
    /\ \A b \in 1..Len(events) :
          events[b].kind # "start" =>
             \E a \in 1..(b - 1) : events[a] = Event("start", events[b].task, NoDef)

\* C9 witness: the second task of a job has returned from its component
\* after the first was through.
C9_Witness ==
    /\ Len(job) = 2
    /\ \E a, b \in 1..Len(events) :
          /\ a < b
          /\ events[a] = Event("done", 1, NoDef)
          /\ events[b] = Event("return", 2, NoDef)

\* A task run_task can carry out: its component is registered in the
\* catalog, the task binds each slot of it to a definition of the slot's
\* type and nothing else, and the callable does not raise.
WellFormed(task) ==
    LET found == GetComponent(task.component, task.library)
        fits(bindings, slots) ==
            /\ Len(bindings) = Len(slots)
            /\ \A j \in 1..Len(slots) :
                  /\ bindings[j].name = slots[j].name
                  /\ bindings[j].def.type = slots[j].type
    IN  /\ found.outcome = "ok"
        /\ ~found.component.raises
        /\ fits(task.input_data, found.component.input_slots)
        /\ fits(task.output_data, found.component.output_slots)

\* C2 (commit after return): a COMMIT_DATUM of a task is sent only after the
\* task's callable returned and never after it raised, and a task run_task
\* is through with, unless the backend failed it, has had its callable
\* return and then exactly one COMMIT_DATUM for the definition of each of
\* its output datums.
C2_CommitAfterReturn ==
    /\ \A b \in 1..Len(events) :
          events[b].kind = "commit" =>
             \E a \in 1..(b - 1) : events[a] = Event("return", events[b].task, NoDef)
    /\ \A k \in 1..Len(job) :
          LET mine == SelectSeq(events, LAMBDA e : e.task = k)
              commits == SelectSeq(mine, LAMBDA e : e.kind = "commit")
              through == mine # <<>> /\ mine[Len(mine)].kind \in {"raise", "done"}
              backendFailed == pending = "commit_datum" /\ bcall.outcome # "ok"
          IN  (WellFormed(job[k]) /\ through /\ ~backendFailed) =>
                 /\ \E a \in 1..Len(mine) : mine[a].kind = "return"
                 /\ [j \in 1..Len(commits) |-> commits[j].def]
                       = DefsOf(job[k].output_data)

\* C3 (cache sharing): every resolution of a definition with a hash returns
\* an instance, the one the first resolution of that hash returned.
C3_CacheSharing ==
    \A b \in 1..Len(resolved) :
       resolved[b].def.hash # None =>
          /\ resolved[b].outcome = "ok"
          /\ \A a \in 1..b :
                resolved[a].def.hash = resolved[b].def.hash =>
                   resolved[a].inst = resolved[b].inst

\* C4 (cache bypass): every resolution of a definition without a hash
\* returns an instance no other resolution returned, and leaves datum_cache
\* as it was.
C4_CacheBypass ==
    \A b \in 1..Len(resolved) :
       resolved[b].def.hash = None =>
          /\ resolved[b].outcome = "ok"
          /\ resolved[b].after = resolved[b].before
          /\ \A a \in 1..Len(resolved) : a # b => resolved[a].inst # resolved[b].inst

-----------------------------------------------------------------------------
(* Properties of promotion and of the datum factory *)

ConcreteTypes == {"file", "folder", "dataframe", "object"}

\* The variant Datum.from_definition builds for a concrete kind.
VariantOf(t) ==
    CASE t = "file" -> "FileDatum"
      [] t = "folder" -> "FolderDatum"
      [] t = "dataframe" -> "DataFrameDatum"
      [] OTHER -> "ObjectDatum"

\* C11 (promotion): when promote(K) has returned on an UnspecifiedDatum u,
\* for a concrete kind K, what it returned is a new instance of the variant
\* for K, on the path of u, whose definition has kind K and whose get_type()
\* is K.
C11_Promotion ==
    (lastOp.op = "promote" /\ lastOp.arg \in ConcreteTypes /\ lastOp.outcome = "ok") =>
        /\ lastOp.retInst \in InstIds \ {lastOp.inst}
        /\ datums[lastOp.retInst].cls = VariantOf(lastOp.arg)
        /\ datums[lastOp.retInst].def.path = datums[lastOp.inst].def.path
        /\ datums[lastOp.retInst].def.type = lastOp.arg
        /\ GetType(datums[lastOp.retInst]) = lastOp.arg

\* C12 (promote leaves the original alone): across a call of promote on u,
\* the definition of u (path, kind, hash) and its committed flag stay what
\* they were.
C12_PromoteFrame ==
    [][\A i \in InstIds :
          (lastOp'.op = "promote" /\ lastOp'.inst = i) =>
             /\ datums'[i].def = datums[i].def
             /\ datums'[i].committed = datums[i].committed
             /\ datums'[i].cls = "UnspecifiedDatum"]_vars

\* C12 witness: promote("object") has just returned a new instance.
C12_Witness ==
    /\ lastOp.op = "promote"
    /\ lastOp.arg = "object"
    /\ lastOp.outcome = "ok"
    /\ lastOp.retInst # lastOp.inst
    /\ datums[lastOp.inst].cls = "UnspecifiedDatum"
    /\ datums[lastOp.retInst].cls # "absent"

-----------------------------------------------------------------------------
(* One DatumFactory, its children, and Runtime.commit_datums called on them
   (SpecFactory) *)

\* datum.generated_datums: a DatumFactory has _generated_datums and
\* get_generated_datums(), but no attribute of this name; [outcome, value].
generated_datums(x) == [outcome |-> "AttributeError", value |-> <<>>]

\* Runtime.commit_datums over the instances ids, every COMMIT_DATUM being
\* acknowledged: how it ends and the messages it wrote.
RECURSIVE CommitDatumsOfMutant(_, _)
CommitDatumsOfMutant(ids, dts) ==
    IF ids = <<>> THEN [outcome |-> "ok", sent |-> <<>>]
    ELSE LET x == dts[Head(ids)]
             inner == IF x.cls = "DatumFactory"
                      THEN IF generated_datums(x).outcome # "ok"
                           THEN [outcome |-> generated_datums(x).outcome, sent |-> <<>>]
                           ELSE CommitDatumsOfMutant(generated_datums(x).value, dts)
                      ELSE [outcome |-> "ok",
                            sent |-> IF x.committed THEN <<>>
                                     ELSE <<Message("COMMIT_DATUM", x.def)>>]
             rest == CommitDatumsOfMutant(Tail(ids), dts)
         IN  IF inner.outcome # "ok" THEN inner
             ELSE [outcome |-> rest.outcome, sent |-> inner.sent \o rest.sent]

RECURSIVE CommitDatumsOf(_, _)
CommitDatumsOf(ids, dts) ==
    IF ids = <<>> THEN [outcome |-> "ok", sent |-> <<>>]
    ELSE LET x == dts[Head(ids)]
             inner == IF x.cls = "DatumFactory"
                      THEN IF generated_datums(x).outcome # "ok"
                           THEN [outcome |-> generated_datums(x).outcome, sent |-> <<>>]
                           ELSE CommitDatumsOf(generated_datums(x).value, dts)
                      ELSE [outcome |-> "ok",
                            sent |-> <<Message("COMMIT_DATUM", x.def)>>]
             rest == CommitDatumsOf(Tail(ids), dts)
         IN  IF inner.outcome # "ok" THEN inner
             ELSE [outcome |-> rest.outcome, sent |-> inner.sent \o rest.sent]

\* The lists of output datums handed to commit_datums: one or two distinct
\* live instances.
OutputLists ==
    LET live == {j \in FactoryIds : Live(j)}
    IN  { <<i>> : i \in live }
        \cup { ids \in { <<i, k>> : i, k \in live } : ids[1] # ids[2] }

factoryFrame == <<bcall, runtimeVars>>

\* DatumFactory(definition)
FactoryNew ==
    \E d \in Definitions :
        /\ \A i \in AllIds : ~Live(i)
        /\ datums' = [datums EXCEPT ![1] = NewFactory(d)]
        /\ lastOp' = Call("DatumFactory", 0, "ok", None, 1)
        /\ UNCHANGED <<disk, nextUuid, factoryFrame>>

\* factory.create_datum(): the child is appended only when it was built.
FactoryCreateDatum ==
    /\ datums[1].cls = "DatumFactory"
    /\ nextUuid < MaxChildren
    /\ LET free == Cardinality({i \in AllIds : Live(i)}) + 1
           r == FromDefinition(ChildDefinition(datums[1], nextUuid + 1), disk)
       IN  /\ free \in FactoryIds
           /\ datums' = IF r.outcome = "ok"
                        THEN [datums EXCEPT ![free] = r.inst,
                                            ![1].generated = Append(@, free)]
                        ELSE datums
           /\ lastOp' = Call("create_datum", 1, r.outcome, None,
                             IF r.outcome = "ok" THEN free ELSE 0)
    /\ nextUuid' = nextUuid + 1
    /\ UNCHANGED <<disk, factoryFrame>>

\* child.commit_folder()
ChildCommitFolder ==
    \E i \in FactoryIds :
        /\ datums[i].cls = "FolderDatum"
        /\ Apply("commit_folder", i,
                 Result("ok", CommitFolder(datums[i]), disk[datums[i].def.path], None))

\* factory.get_generated_datums(), the list it returns in ret.
FactoryGetGeneratedDatums ==
    /\ datums[1].cls = "DatumFactory"
    /\ lastOp' = [Call("get_generated_datums", 1, "ok", None, 0)
                    EXCEPT !.ret = GetGeneratedDatums(datums[1])]
    /\ UNCHANGED <<disk, datums, nextUuid, factoryFrame>>

\* runtime.commit_datums(outputs) over a backend that acknowledges.
RuntimeCommitDatums ==
    \E outputs \in OutputLists :
        /\ stdout = <<>>
        /\ lastOp.op # "commit_datums"
        /\ LET r == CommitDatumsOf(outputs, datums)
           IN  /\ stdout' = r.sent
               /\ inCount' = Len(r.sent)
               /\ lastOp' = [Call("commit_datums", 0, r.outcome, None, 0)
                               EXCEPT !.arg = outputs]
        /\ UNCHANGED <<disk, datums, nextUuid, bcall, pc, err, skipped, pending, job,
                       taskIdx, jobsReceived, toCommit, cli, cliLog, ran, cast,
                       stdin, reads, parsed, buildLog,
                       datum_cache, resolved, events>>

FactoryNext ==
    \/ FactoryNew
    \/ FactoryCreateDatum
    \/ ChildCommitFolder
    \/ FactoryGetGeneratedDatums
    \/ RuntimeCommitDatums

SpecFactory == Init /\ [][FactoryNext]_vars

\* The COMMIT_DATUM messages the outputs ids call for: one per plain datum,
\* and for a factory one per committed child, in creation order.
RECURSIVE ExpectedCommits(_)
ExpectedCommits(ids) ==
    IF ids = <<>> THEN <<>>
    ELSE LET x == datums[Head(ids)]
             kids == SelectSeq(x.generated, LAMBDA j : datums[j].committed)
         IN  (IF x.cls = "DatumFactory"
              THEN [k \in 1..Len(kids) |-> Message("COMMIT_DATUM", datums[kids[k]].def)]
              ELSE <<Message("COMMIT_DATUM", x.def)>>)
             \o ExpectedCommits(Tail(ids))

\* C13 (factory expansion on commit): commit_datums over outputs that hold
\* a DatumFactory returns, having sent one COMMIT_DATUM for each committed
\* child of the factory, in creation order, none for an uncommitted child
\* and none for the factory's own definition.
C13_FactoryExpansion ==
    lastOp.op = "commit_datums" =>
        /\ lastOp.outcome = "ok"
        /\ stdout = ExpectedCommits(lastOp.arg)

\* C14 (generated set): get_generated_datums() returns the children of the
\* factory that are committed, all of them and no other, each once, in the
\* order they were created (instance ids grow with creation), and changes
\* neither an instance nor the disk.
C14_GeneratedDatums ==
    [][lastOp'.op = "get_generated_datums" =>
          LET ret == lastOp'.ret
          IN  /\ {ret[k] : k \in 1..Len(ret)}
                    = {j \in FactoryIds \ {1} : Live(j) /\ datums[j].committed}
              /\ \A a, b \in 1..Len(ret) : a < b => ret[a] < ret[b]
              /\ datums' = datums
              /\ disk' = disk]_vars

\* C14 witness: the factory made two children, only the second was
\* committed, and get_generated_datums() has just returned that one alone.
C14_Witness ==
    /\ lastOp.op = "get_generated_datums"
    /\ lastOp.ret = <<3>>
    /\ Live(2) /\ ~datums[2].committed
    /\ datums[3].committed

-----------------------------------------------------------------------------
(* The backend methods called one after the other on a
   SimpleCliCommunicationBackend (SpecCli) *)

\* Calls one run makes on the backend.
MaxCliCalls == 3

\* A backend method sends request through _send_message and ends on the
\* answer.
CliCall(method, request) ==
    LET r == SimpleCliSendMessage(cli, request)
    IN  /\ cli' = r.state
        /\ cliLog' = Append(cliLog, Exchange(request, r.response))
        /\ bcall' = BackendCall(method, request, r.response,
                                IF method = "_send_message" THEN Returned(r.response.data)
                                ELSE MethodResult(method, r.response))
        /\ UNCHANGED <<datumVars, pc, err, stdout, inCount, skipped, pending, job,
                       taskIdx, jobsReceived, toCommit, datum_cache, resolved, events,
                       ran, cast, stdin, reads, parsed, buildLog>>

CliGetJob ==
    /\ Len(cliLog) < MaxCliCalls
    /\ CliCall("get_job", Message("GET_JOB", EmptyData))

CliCreateDatum ==
    /\ Len(cliLog) < MaxCliCalls
    /\ CliCall("create_datum", Message("CREATE_DATUM", EmptyData))

CliCommitDatum ==
    /\ Len(cliLog) < MaxCliCalls
    /\ \E datum \in TaskDefs : CliCall("commit_datum", Message("COMMIT_DATUM", datum))

CliNotifyJobCompletion ==
    /\ Len(cliLog) < MaxCliCalls
    /\ CliCall("notify_job_completion", Message("JOB_FINISHED", CliJob))

\* _send_message handed a message that is no request.
CliSendOther ==
    /\ Len(cliLog) < MaxCliCalls
    /\ \E c \in {"ACK", "STOP"} : CliCall("_send_message", Message(c, EmptyData))

CliNext ==
    \/ CliGetJob
    \/ CliCreateDatum
    \/ CliCommitDatum
    \/ CliNotifyJobCompletion
    \/ CliSendOther

SpecCli == Init /\ [][CliNext]_vars

\* The exchanges of the log before position k whose request is command c.
Earlier(c, k) == { i \in 1..(k - 1) : cliLog[i].request.command = c }

C16_SingleShotJobFinished ==
    /\ \A k \in 1..Len(cliLog) :
          cliLog[k].request.command = "JOB_FINISHED" =>
              cliLog[k].response.command =
                  (IF Earlier("JOB_FINISHED", k) = {} THEN "ACK" ELSE "ERROR")
    /\ (bcall.method = "notify_job_completion" /\ cliLog # <<>>) =>
          bcall.outcome =
              (IF Earlier("JOB_FINISHED", Len(cliLog)) = {} THEN "ok" ELSE "ValueError")
    /\ cli.job_completed = (Earlier("JOB_FINISHED", Len(cliLog) + 1) # {})

\* A second completion notice was refused after other traffic in between.
C16_Witness ==
    /\ Len(cliLog) = 3
    /\ cliLog[1].request.command = "JOB_FINISHED"
    /\ cliLog[1].response.command = "ACK"
    /\ cliLog[2].request.command = "GET_JOB"
    /\ cliLog[3].request.command = "JOB_FINISHED"
    /\ cliLog[3].response.command = "ERROR"
    /\ bcall.method = "notify_job_completion"
    /\ bcall.outcome = "ValueError"

\* C17: whatever came before, CREATE_DATUM is answered with ERROR and
\* create_datum raises, COMMIT_DATUM is answered with ACK and commit_datum
\* returns, and neither changes the job or job_completed of the backend.
C17_SingleShotDatumCommands ==
    [][ cliLog' # cliLog =>
          /\ bcall'.method = "create_datum" =>
                /\ bcall'.response.command = "ERROR"
                /\ bcall'.outcome = "ValueError"
                /\ cli' = cli
          /\ bcall'.method = "commit_datum" =>
                /\ bcall'.response.command = "ACK"
                /\ bcall'.outcome = "ok"
                /\ cli' = cli ]_vars

\* Both datum commands were served after the job had been reported finished.
C17_Witness ==
    /\ Len(cliLog) = 3
    /\ cliLog[1].request.command = "JOB_FINISHED"
    /\ cliLog[2].request.command = "CREATE_DATUM"
    /\ cliLog[2].response.command = "ERROR"
    /\ cliLog[3].request.command = "COMMIT_DATUM"
    /\ cliLog[3].response.command = "ACK"
    /\ bcall.method = "commit_datum"
    /\ bcall.outcome = "ok"
    /\ cli = SimpleCli(CliJob, TRUE)

-----------------------------------------------------------------------------
(* Component.run on datums already resolved, followed by commit_datums as in
   Runtime.run_task (SpecRun) *)

\* Slots a component declares as inputs.
MaxSlots == 2

\* The names of the input slots, in declaration order, and of the output slot.
SlotNames == <<"a", "b", "c">>
OutputNames == <<"dst">>

\* The slot lists of one direction over names: the first n of them, each
\* required or not, single, of kind object.
SlotLists(names, most) ==
    UNION { { [k \in 1..n |-> SlotDefinition(names[k], req[k], FALSE, "object")] :
              req \in [1..n -> BOOLEAN] } : n \in 0..most }

\* The component descriptors run is called on.
\* The output slot lists: none, or the one slot dst of kind object, required
\* or not, single or multiple.
OutputSlotLists ==
    {<<>>} \cup { <<SlotDefinition(OutputNames[1], req, mult, "object")>> :
                    req \in BOOLEAN, mult \in BOOLEAN }

Descriptors ==
    { Component("c", ins, outs, FALSE) :
        ins \in SlotLists(SlotNames, MaxSlots), outs \in OutputSlotLists }

\* What a slot name may be bound to: None, or a datum of the folder on disk,
\* as built or, for the object, already committed by an earlier set_object
\* (Absent: the name is not in the dict).
Bindable(dsk) ==
    {Absent, NoneDatum}
    \cup { FromDefinition(DatumDefinition(PathOf("data"), t, None), dsk).inst :
             t \in {"object", "folder", "not_yet_known"} }
    \cup { [FromDefinition(DatumDefinition(PathOf("data"), "object", None), dsk).inst
              EXCEPT !.committed = TRUE] }

\* The dict binding names[k] to f[k].
DictOf(names, f) ==
    SelectSeq([k \in DOMAIN f |-> [name |-> names[k], inst |-> f[k]]],
              LAMBDA e : e.inst.cls # "absent")

\* run_task from component.run on: the outputs are committed only when run
\* returned.
RunOnResolved ==
    /\ ran = <<>>
    /\ \E c \in Descriptors, fi \in [1..MaxSlots -> Bindable(disk)],
          fo \in [1..1 -> Bindable(disk)] :
          LET input_data == DictOf(SlotNames, fi)
              output_data == DictOf(OutputNames, fo)
              r == ComponentRun(c, input_data, output_data, disk)
              outs == [j \in 1..Len(output_data) |-> output_data[j].inst]
              committed == IF r.outcome = "ok"
                           THEN CommitDatumsOf([j \in 1..Len(outs) |-> j], outs)
                           ELSE [outcome |-> r.outcome, sent |-> <<>>]
          IN  /\ ran' = Append(ran, [component |-> c, input_data |-> input_data,
                                     output_data |-> output_data,
                                     outcome |-> r.outcome, called |-> r.called,
                                     params |-> r.params, sent |-> committed.sent])
              /\ stdout' = stdout \o committed.sent
              /\ inCount' = inCount + Len(committed.sent)
    /\ UNCHANGED <<datumVars, bcall, pc, err, skipped, pending, job, taskIdx,
                   jobsReceived, toCommit, datum_cache, resolved, events, cli,
                   cliLog, cast, stdin, reads, parsed, buildLog>>

RunNext == RunOnResolved

SpecRun == Init /\ [][RunNext]_vars

\* C18: Component.run invokes the callable only when as many input datums
\* are provided as input slots are declared; with fewer or with more it
\* raises a validation error and the callable is not invoked.
C18_SlotArity ==
    \A k \in 1..Len(ran) :
        /\ ran[k].called => Len(ran[k].input_data) = Len(ran[k].component.input_slots)
        /\ Len(ran[k].input_data) # Len(ran[k].component.input_slots) =>
              /\ ran[k].outcome \in {"ValueError", "Warning"}
              /\ ~ran[k].called

\* A required slot of slots is absent from data or bound to None there.
Unbound(slots, data) ==
    \E j \in 1..Len(slots) :
        /\ slots[j].required
        /\ \/ slots[j].name \notin Names(data)
           \/ ValueOf(data, slots[j].name).cls = "NoneType"

\* C19: when a required input or output slot is absent or bound to None,
\* Component.run raises before the callable is invoked and no COMMIT_DATUM
\* is sent for the task.
C19_Requiredness ==
    \A k \in 1..Len(ran) :
        (\/ Unbound(ran[k].component.input_slots, ran[k].input_data)
         \/ Unbound(ran[k].component.output_slots, ran[k].output_data)) =>
            /\ ran[k].outcome # "ok"
            /\ ~ran[k].called
            /\ ran[k].sent = <<>>
            /\ \A j \in 1..Len(stdout) : stdout[j].command # "COMMIT_DATUM"

\* A run given a sound datum for its required input and nothing for its
\* required output: it raised and the callable was not invoked.
C19_Witness ==
    /\ Len(ran) = 1
    /\ Len(ran[1].component.input_slots) = 1
    /\ ran[1].component.input_slots[1].required
    /\ Names(ran[1].input_data) = {"a"}
    /\ ValueOf(ran[1].input_data, "a").cls = "ObjectDatum"
    /\ Len(ran[1].component.output_slots) = 1
    /\ ran[1].component.output_slots[1].required
    /\ ran[1].output_data = <<>>
    /\ ran[1].outcome = "ValueError"
    /\ ~ran[1].called

-----------------------------------------------------------------------------
(* component_definition.py: OptionDefinition.Types *)

Types == {"string", "integer", "float", "boolean", "datetime"}

\* A Python int is kept as its sign and two limbs, hi * Limb + lo; a finite
\* float as the same plus half (one more half unit), which covers the
\* doubles whose fraction is 0 or 1/2. A double holds 53 significant bits:
\* from Limb * Exact on only the even integers are doubles, from half of
\* that on no double has a fraction.
Limb == 2^27
Exact == 2^26

\* The largest low limb of the numbers handed in.
MaxLow == 3

\* A Python value: its type and, for a number, what it is worth (special:
\* "inf" or "nan" for the floats that are not finite).
PyValue(t, neg, hi, lo, half, special) ==
    [type |-> t, neg |-> neg, hi |-> hi, lo |-> lo, half |-> half, special |-> special]

PyInt(neg, hi, lo) == PyValue("int", neg, hi, lo, FALSE, "finite")
PyFloat(neg, hi, lo, half) == PyValue("float", neg, hi, lo, half, "finite")
PyOther(t) == PyValue(t, FALSE, 0, 0, FALSE, "finite")

\* The values handed to cast_if_needed: integers and doubles around zero and
\* around Limb * Exact, the infinities and nan, a str, a bool, a datetime
\* and None.
PyValues ==
    { n \in { PyInt(neg, hi, lo) :
                 neg \in BOOLEAN, hi \in {0, Exact}, lo \in 0..MaxLow } :
        n # PyInt(TRUE, 0, 0) }
    \cup { v \in { PyFloat(neg, hi, lo, half) :
                     neg \in BOOLEAN, hi \in {0, Exact}, lo \in 0..MaxLow,
                     half \in BOOLEAN } :
             /\ v.hi >= Exact \div 2 => ~v.half
             /\ v.hi >= Exact => v.lo % 2 = 0 }
    \cup { PyValue("float", neg, 0, 0, FALSE, "inf") : neg \in BOOLEAN }
    \cup { PyValue("float", FALSE, 0, 0, FALSE, "nan") }
    \cup { PyOther(t) : t \in {"str", "bool", "datetime", "NoneType"} }

\* Types.from_type: [outcome, type].
FromType(python_type) ==
    CASE python_type = "str" -> [outcome |-> "ok", type |-> "string"]
      [] python_type = "int" -> [outcome |-> "ok", type |-> "integer"]
      [] python_type = "float" -> [outcome |-> "ok", type |-> "float"]
      [] python_type = "bool" -> [outcome |-> "ok", type |-> "boolean"]
      [] python_type = "datetime" -> [outcome |-> "ok", type |-> "datetime"]
      [] OTHER -> [outcome |-> "ValueError", type |-> "none"]

\* int(value) of a float: the fraction is cut off; [outcome, value].
IntOf(v) ==
    CASE v.special = "inf" -> [outcome |-> "OverflowError", value |-> v]
      [] v.special = "nan" -> [outcome |-> "ValueError", value |-> v]
      [] OTHER -> [outcome |-> "ok",
                   value |-> PyInt(v.neg /\ (v.hi # 0 \/ v.lo # 0), v.hi, v.lo)]

\* float(value) of an int below 2 * Limb * Exact: the nearest double, the
\* one with the even significand when two are as near.
FloatOf(n) ==
    IF n.hi < Exact \/ n.lo % 2 = 0 THEN PyFloat(n.neg, n.hi, n.lo, FALSE)
    ELSE IF (n.lo - 1) % 4 = 0 THEN PyFloat(n.neg, n.hi, n.lo - 1, FALSE)
    ELSE IF n.lo + 1 = Limb THEN PyFloat(n.neg, n.hi + 1, 0, FALSE)
    ELSE PyFloat(n.neg, n.hi, n.lo + 1, FALSE)

\* a == b between an int and a float: they are worth the same.
NumEq(a, b) ==
    /\ a.special = "finite" /\ b.special = "finite"
    /\ a.hi = b.hi /\ a.lo = b.lo /\ a.half = b.half
    /\ (a.neg = b.neg \/ (a.hi = 0 /\ a.lo = 0 /\ ~a.half))

\* Types.cast_if_needed(target_type, value): [outcome, value].
CastIfNeeded(target_type, value) ==
    LET value_type == FromType(value.type)
        failed(e) == [outcome |-> e, value |-> value]
    IN  IF value_type.outcome # "ok" THEN failed(value_type.outcome)
        ELSE IF target_type = value_type.type THEN [outcome |-> "ok", value |-> value]
        ELSE IF target_type = "integer" /\ value_type.type = "float"
        THEN IF IntOf(value).outcome # "ok" THEN failed(IntOf(value).outcome)
             ELSE IF NumEq(IntOf(value).value, value) THEN IntOf(value)
             ELSE failed("ValueError")
        ELSE IF target_type = "float" /\ value_type.type = "integer"
                /\ NumEq(FloatOf(value), value)
        THEN [outcome |-> "ok", value |-> FloatOf(value)]
        ELSE failed("ValueError")

-----------------------------------------------------------------------------
(* cast_if_needed called on every declared type and value (SpecCast) *)

DoCast ==
    /\ cast = <<>>
    /\ \E target_type \in Types, value \in PyValues :
          cast' = Append(cast, [target_type |-> target_type, value |-> value,
                                outcome |-> CastIfNeeded(target_type, value).outcome,
                                ret |-> CastIfNeeded(target_type, value).value])
    /\ UNCHANGED <<datumVars, bcall, pc, err, stdout, inCount, skipped, pending,
                   job, taskIdx, jobsReceived, toCommit, datum_cache, resolved,
                   events, cli, cliLog, ran, stdin, reads, parsed, buildLog>>

CastNext == DoCast

SpecCast == Init /\ [][CastNext]_vars

\* The declared type a Python type stands for ("none" when it stands for
\* none).
DeclaredAs(python_type) ==
    CASE python_type = "str" -> "string"
      [] python_type = "int" -> "integer"
      [] python_type = "float" -> "float"
      [] python_type = "bool" -> "boolean"
      [] python_type = "datetime" -> "datetime"
      [] OTHER -> "none"

\* C20: cast_if_needed returns the value unchanged when its type is the
\* declared one; declared INTEGER and given a float it returns the integer
\* worth the same when the float is integral and fails when it is not;
\* declared FLOAT and given an integer n it returns float(n); every other
\* combination fails.
C20_OptionCasting ==
    \A k \in 1..Len(cast) :
        LET c == cast[k]
            given == DeclaredAs(c.value.type)
        IN  CASE given = c.target_type ->
                    c.outcome = "ok" /\ c.ret = c.value
              [] c.target_type = "integer" /\ given = "float" ->
                    IF c.value.special = "finite" /\ ~c.value.half
                    THEN /\ c.outcome = "ok"
                         /\ c.ret.type = "int"
                         /\ NumEq(c.ret, c.value)
                    ELSE c.outcome # "ok"
              [] c.target_type = "float" /\ given = "integer" ->
                    c.outcome = "ok" /\ c.ret = FloatOf(c.value)
              [] OTHER -> c.outcome # "ok"

-----------------------------------------------------------------------------
(* Properties of the catalog lookup *)

\* The descriptors registered under name, and whether library names the
\* catalog.
RegisteredAs(name) == {c \in Components : Lower(c.name) = Lower(name)}
NamesCatalog(library) == Lower(library) = Lower(CatalogName)

-----------------------------------------------------------------------------
(* Properties of the writes of the datum variants *)

\* C22: a set_object that returns leaves its datum committed; a set_df that
\* returns leaves its datum uncommitted, and a dataframe datum becomes
\* committed by commit_file only.
C22_CommitAsymmetry ==
    [][\A i \in InstIds :
          /\ (lastOp'.op = "set_object" /\ lastOp'.inst = i /\ lastOp'.outcome = "ok") =>
                IsCommitted(datums'[i])
          /\ (lastOp'.op = "set_df" /\ lastOp'.inst = i /\ lastOp'.outcome = "ok") =>
                ~IsCommitted(datums'[i])
          /\ (datums[i].cls = "DataFrameDatum" /\ ~IsCommitted(datums[i])
                /\ IsCommitted(datums'[i])) =>
                (lastOp'.op = "commit_file" /\ lastOp'.inst = i)]_vars

\* A dataframe was just written and its datum is not committed, next to an
\* object datum that holds what was written to it and is committed.
C22_Witness ==
    \E i, j \in InstIds :
        /\ datums[i].cls = "DataFrameDatum"
        /\ lastOp.op = "set_df" /\ lastOp.inst = i /\ lastOp.outcome = "ok"
        /\ datums[i].mem # None
        /\ ~IsCommitted(datums[i])
        /\ datums[j].cls = "ObjectDatum"
        /\ datums[j].mem # None
        /\ IsCommitted(datums[j])

\* C23: when from_definition(d) has returned, what it returned is the variant
\* whose fixed kind tag is the kind of d (an UnspecifiedDatum for
\* not_yet_known), and its get_type() is the kind of d.
C23_ClosedDispatch ==
    (lastOp.op = "from_definition" /\ lastOp.outcome = "ok") =>
        LET x == datums[lastOp.retInst]
        IN  /\ x.cls = (IF x.def.type = "not_yet_known" THEN "UnspecifiedDatum"
                        ELSE VariantOf(x.def.type))
            /\ IoType(x) = x.def.type
            /\ GetType(x) = x.def.type

-----------------------------------------------------------------------------
(* communication.py: TerminalCommunicationBackend reading standard input as
   a stream of lines (SpecStdin) *)

\* Lines the controller may have written before standard input is read.
MaxLines == 3
\* Calls that read standard input in one run.
MaxReads == 2

\* A line is the sequence of its pieces: the in-marker, white space, a JSON
\* literal, or text that is none of these.
InSeparator == [piece |-> "<--CUBELET-->"]
White == [piece |-> "white"]
Text == [piece |-> "text"]
Json(v) == [piece |-> "json", value |-> v]

\* JSON objects: a command (or none) and a data member (or none).
NoMember == [kind |-> "missing"]
JsonObject(c, d) == [command |-> c, data |-> d]
JsonValues ==
    { JsonObject("ACK", NoMember), JsonObject("STOP", EmptyData),
      JsonObject("PING", NoMember) }

\* str.startswith.
StartsWith(line, prefix) == Len(line) >= 1 /\ line[1] = prefix

\* str.strip.
RECURSIVE Strip(_)
Strip(s) ==
    IF s = <<>> THEN s
    ELSE IF s[1] = White THEN Strip(Tail(s))
    ELSE IF s[Len(s)] = White THEN Strip(SubSeq(s, 1, Len(s) - 1))
    ELSE s

\* Message.model_validate_json: one JSON object with a command of
\* CommandName; data defaults to an empty dict.
ModelValidateJson(literal) ==
    IF /\ Len(literal) = 1
       /\ literal[1].piece = "json"
       /\ literal[1].value.command \in CommandName
    THEN Returned(Message(literal[1].value.command,
                          IF literal[1].value.data = NoMember THEN EmptyData
                          ELSE literal[1].value.data))
    ELSE Raised("ValidationError")

\* TerminalCommunicationBackend._parse_line.
ParseLineMutant(line) ==
    IF ~StartsWith(line, InSeparator) THEN ReturnedNone
    ELSE IF ModelValidateJson(Strip(Tail(line))).outcome = "ok"
         THEN ModelValidateJson(Strip(Tail(line)))
    ELSE ReturnedNone

ParseLine(line) ==
    IF ~StartsWith(line, InSeparator) THEN ReturnedNone
    ELSE ModelValidateJson(Strip(Tail(line)))

\* TerminalCommunicationBackend.get_response from read position pos: the
\* position it leaves and how it ends. The for loop falls through at the
\* end of input and the function returns None.
RECURSIVE GetResponse(_, _)
GetResponse(lines, pos) ==
    IF pos >= Len(lines) THEN [pos |-> pos, outcome |-> "ok", ret |-> ReturnedNone.ret]
    ELSE IF ParseLine(lines[pos + 1]) = ReturnedNone THEN GetResponse(lines, pos + 1)
    ELSE [pos |-> pos + 1, outcome |-> ParseLine(lines[pos + 1]).outcome,
          ret |-> ParseLine(lines[pos + 1]).ret]

\* Reading blocks while the stream is open and holds no line that ends the
\* loop.
Readable(st) ==
    \/ st.closed
    \/ \E k \in (st.pos + 1)..Len(st.lines) : StartsWith(st.lines[k], InSeparator)

\* The lines a controller, or anything else that shares the stream, writes.
Lines ==
    { <<Text>>, <<White, InSeparator, Json(JsonObject("ACK", NoMember))>>,
      <<InSeparator, Text>>, <<InSeparator, Json(JsonObject("PING", NoMember))>>,
      <<InSeparator, Json(JsonObject("ACK", NoMember)), White>>,
      <<InSeparator, White, Json(JsonObject("STOP", EmptyData)), White>> }

\* What a backend method makes of what _send_message returned.
MethodOver(method, response) ==
    IF response.outcome # "ok" THEN Raised(response.outcome)
    ELSE IF response.ret = ReturnedNone.ret THEN Raised("AttributeError")
    ELSE MethodResult(method, response.ret)

\* One call that reads the stream: get_response itself, or a backend method
\* through _send_message.
Read(method, request) ==
    LET r == GetResponse(stdin.lines, stdin.pos)
    IN  /\ Readable(stdin)
        /\ stdin' = [stdin EXCEPT !.pos = r.pos]
        /\ reads' = Append(reads,
              [method |-> method, from |-> stdin.pos, to |-> r.pos,
               response |-> [outcome |-> r.outcome, ret |-> r.ret],
               outcome |-> IF method = "get_response" THEN r.outcome
                           ELSE MethodOver(method, r).outcome,
               ret |-> IF method = "get_response" THEN r.ret
                       ELSE MethodOver(method, r).ret])
        /\ stdout' = IF method = "get_response" THEN stdout
                     ELSE SendMessage(stdout, request).stdout
        /\ UNCHANGED <<datumVars, bcall, pc, err, inCount, skipped, pending, job,
                       taskIdx, jobsReceived, toCommit, datum_cache, resolved,
                       events, cli, cliLog, ran, cast, parsed, buildLog>>

StdinGetResponse ==
    /\ Len(reads) < MaxReads
    /\ Read("get_response", NoMessage)

StdinGetJob ==
    /\ Len(reads) < MaxReads
    /\ Read("get_job", Message("GET_JOB", EmptyData))

StdinCommitDatum ==
    /\ Len(reads) < MaxReads
    /\ Read("commit_datum", Message("COMMIT_DATUM", FreshDef))

\* The other end of the stream writes a line, or closes it.
ControllerWrites ==
    /\ ~stdin.closed
    /\ Len(stdin.lines) < MaxLines
    /\ \E line \in Lines : stdin' = [stdin EXCEPT !.lines = Append(@, line)]
    /\ UNCHANGED <<datumVars, bcall, pc, err, stdout, inCount, skipped, pending,
                   job, taskIdx, jobsReceived, toCommit, datum_cache, resolved,
                   events, cli, cliLog, ran, cast, reads, parsed, buildLog>>

ControllerCloses ==
    /\ ~stdin.closed
    /\ stdin' = [stdin EXCEPT !.closed = TRUE]
    /\ UNCHANGED <<datumVars, bcall, pc, err, stdout, inCount, skipped, pending,
                   job, taskIdx, jobsReceived, toCommit, datum_cache, resolved,
                   events, cli, cliLog, ran, cast, reads, parsed, buildLog>>

StdinNext ==
    \/ StdinGetResponse
    \/ StdinGetJob
    \/ StdinCommitDatum
    \/ ControllerWrites
    \/ ControllerCloses

SpecStdin == Init /\ [][StdinNext]_vars

-----------------------------------------------------------------------------
(* Properties of the terminal backend reading standard input *)

\* The pieces of a line after its in-marker, white space left out.
Payload(line) == SelectSeq(Tail(line), LAMBDA piece : piece # White)

\* The line holds message m after the in-marker.
Holds(line, m) ==
    \E v \in JsonValues :
        /\ Payload(line) = <<Json(v)>>
        /\ v.command \in CommandName
        /\ m.command = v.command
        /\ m.data = (IF v.data = NoMember THEN EmptyData ELSE v.data)

Marked(k) == StartsWith(stdin.lines[k], InSeparator)

\* C24: whatever the lines on standard input, get_response skips every line
\* that does not start with the in-marker, without raising and without
\* taking it for a message, and stops at the first line that does: it
\* returns the Message that line holds, or raises when the line holds none,
\* and the lines after it are left for the next call.
C24_LineFiltering ==
    /\ stdin.pos = (IF reads = <<>> THEN 0 ELSE reads[Len(reads)].to)
    /\ \A n \in 1..Len(reads) :
          LET r == reads[n]
          IN  /\ r.from = (IF n = 1 THEN 0 ELSE reads[n - 1].to)
              /\ \A k \in (r.from + 1)..(r.to - 1) : ~Marked(k)
              /\ (\E k \in (r.from + 1)..Len(stdin.lines) : Marked(k)) =>
                    /\ r.to > r.from
                    /\ Marked(r.to)
                    /\ IF \E m \in Messages : Holds(stdin.lines[r.to], m)
                       THEN /\ r.response.outcome = "ok"
                            /\ Holds(stdin.lines[r.to], r.response.ret)
                       ELSE r.response.outcome = "ValidationError"

\* A call skipped a foreign line and returned the message of the next line,
\* and the call after it met the line that followed, which holds no Message.
C24_Witness ==
    /\ Len(reads) = 2
    /\ reads[1].method = "get_response"
    /\ reads[1].from = 0 /\ reads[1].to = 2
    /\ reads[1].response = Returned(Message("STOP", EmptyData))
    /\ reads[2].from = 2 /\ reads[2].to = 3
    /\ reads[2].response.outcome = "ValidationError"

\* C25: when standard input ends without a line that starts with the
\* in-marker, the call that is reading stays unresolved: get_response hands
\* nothing back and get_job / commit_datum neither return nor raise. So
\* every call that has ended met a marked line.
C25_EndOfInput ==
    \A n \in 1..Len(reads) :
        \E k \in (reads[n].from + 1)..reads[n].to : Marked(k)

-----------------------------------------------------------------------------
(* communication.py: SimpleCliCommunicationBackend built from a command line
   (SpecArgs) *)

\* Strings of one command line.
MaxArgs == 3

\* A command-line string, with what split(",") and then split("=") make of
\* it: its items, each the parts around "=", each part the names around "."
\* ("__" counts as "." in a key).
Arg(text, items) == [text |-> text, items |-> items]
Word(text) == Arg(text, << << <<text>> >> >>)

\* The options of the parser and the attributes they set.
OptionDest ==
    [f \in {"-f", "-o", "-i", "-a", "-c"} |->
        CASE f = "-f" -> "file"
          [] f = "-o" -> "output"
          [] f = "-i" -> "input"
          [] f = "-a" -> "argument"
          [] OTHER -> "context"]
IsOption(arg) == arg.text \in DOMAIN OptionDest

\* The namespace before any string is read: every attribute None (the
\* appended lists shown empty).
Namespace ==
    [component |-> None, file |-> None, output |-> None, input |-> None,
     argument |-> <<>>, context |-> <<>>]

\* How parsing ends: [outcome, args].
NoArgs == [Namespace EXCEPT !.argument = {}, !.context = {}]
Parsed(args) == [outcome |-> "ok", args |-> args]
ParserExit == [outcome |-> "SystemExit", args |-> NoArgs]
ParserRaise(e) == [outcome |-> e, args |-> NoArgs]

\* dict(pairs): the keys in the order they first come, each with its last
\* value.
Dict(pairs) ==
    LET last(k) == CHOOSE n \in 1..Len(pairs) :
                      /\ pairs[n][1] = pairs[k][1]
                      /\ \A m \in (n + 1)..Len(pairs) : pairs[m][1] # pairs[k][1]
        firsts == SelectSeq([k \in 1..Len(pairs) |-> k],
                            LAMBDA k : \A m \in 1..(k - 1) : pairs[m][1] # pairs[k][1])
    IN  [k \in 1..Len(firsts) |->
            [key |-> pairs[firsts[k]][1], value |-> pairs[last(firsts[k])][2]]]

\* command_line.kv_pairs: every item must split in two around "=".
KvPairs(arg) ==
    IF \A k \in 1..Len(arg.items) : Len(arg.items[k]) = 2
    THEN Returned(Dict(arg.items))
    ELSE Raised("ArgumentTypeError")

\* One path is a proper prefix of another.
Under(p, q) == Len(p) < Len(q) /\ SubSeq(q, 1, Len(p)) = p

\* command_line.parse_kv_pairs on the entries of the dicts in order. The
\* nested dict is kept as its leaves, path -> value; an entry under a path
\* that holds a string raises TypeError, an entry at a path replaces what
\* was there and below.
RECURSIVE ParseKvEntries(_, _)
ParseKvEntries(entries, leaves) ==
    IF entries = <<>> THEN [outcome |-> "ok", ret |-> leaves]
    ELSE IF \E leaf \in leaves : Under(leaf.key, Head(entries).key)
         THEN [outcome |-> "TypeError", ret |-> {}]
    ELSE ParseKvEntries(Tail(entries),
            { leaf \in leaves : /\ leaf.key # Head(entries).key
                                /\ ~Under(Head(entries).key, leaf.key) }
            \cup {Head(entries)})

RECURSIVE Flat(_)
Flat(dicts) == IF dicts = <<>> THEN <<>> ELSE Head(dicts) \o Flat(Tail(dicts))

ParseKvPairs(input_kv) == ParseKvEntries(Flat(input_kv), {})

\* ArgumentParser.parse_args for this parser: an option takes the string
\* after it, which must not be an option; component takes at most one of
\* the other strings.
RECURSIVE ParseArgsFrom(_, _)
ParseArgsFrom(raw, ns) ==
    IF raw = <<>> THEN Parsed(ns)
    ELSE IF ~IsOption(raw[1])
         THEN IF ns.component # None THEN ParserExit
              ELSE ParseArgsFrom(Tail(raw), [ns EXCEPT !.component = raw[1].text])
    ELSE IF Len(raw) < 2 \/ IsOption(raw[2]) THEN ParserExit
    ELSE IF OptionDest[raw[1].text] \in {"argument", "context"}
         THEN IF KvPairs(raw[2]).outcome # "ok" THEN ParserExit
              ELSE ParseArgsFrom(SubSeq(raw, 3, Len(raw)),
                      [ns EXCEPT ![OptionDest[raw[1].text]] =
                                    Append(@, KvPairs(raw[2]).ret)])
    ELSE ParseArgsFrom(SubSeq(raw, 3, Len(raw)),
            [ns EXCEPT ![OptionDest[raw[1].text]] = raw[2].text])

\* The last part of _parse_args: the pairs are merged, then the parser
\* exits unless exactly one of file and component was given.
CheckedArgs(args, argument, context) ==
    IF argument.outcome # "ok" THEN ParserRaise(argument.outcome)
    ELSE IF context.outcome # "ok" THEN ParserRaise(context.outcome)
    ELSE IF args.file = None /\ args.component = None THEN ParserExit
    ELSE IF args.file # None /\ args.component # None THEN ParserExit
    ELSE Parsed([args EXCEPT !.argument = argument.ret, !.context = context.ret])

\* SimpleCliCommunicationBackend._parse_args.
ParseArgsOf(parsedArgs) ==
    IF parsedArgs.outcome # "ok" THEN parsedArgs
    ELSE CheckedArgs(parsedArgs.args, ParseKvPairs(parsedArgs.args.argument),
                     ParseKvPairs(parsedArgs.args.context))

ParseArgs(raw_args) == ParseArgsOf(ParseArgsFrom(raw_args, Namespace))

\* SimpleCliCommunicationBackend._add_datum: an UnspecifiedDatum on a
\* definition of the path, whose type defaults to FILE.
AddDatum(datums_, path) ==
    IF path # None
    THEN Append(datums_, NewDatum("UnspecifiedDatum",
                                  DatumDefinition([base |-> path, sub |-> 0], "file", None)))
    ELSE datums_

\* The keyword arguments _parse_job hands to TaskDefinition.
TaskKeywords(args) ==
    [name |-> args.component, library |-> "local", arguments |-> args.argument,
     input_data |-> [kind |-> "list", items |-> AddDatum(<<>>, args.input)],
     output_data |-> [kind |-> "list", items |-> AddDatum(<<>>, args.output)]]

\* TaskDefinition(**keywords): component is required, input_data and
\* output_data must be dicts of definitions; other names are ignored.
NewTaskDefinition(keywords) ==
    IF /\ "component" \in DOMAIN keywords
       /\ keywords.input_data.kind = "dict"
       /\ keywords.output_data.kind = "dict"
    THEN Returned([tasks |-> <<TaskDefinition(
                      WireTask(keywords.component, keywords.library,
                               keywords.input_data.items, keywords.output_data.items))>>])
    ELSE Raised("ValidationError")

\* SimpleCliCommunicationBackend._parse_job; JobDefinition has no
\* model_validate_file.
ParseJob(args) ==
    IF args.file # None THEN Raised("AttributeError")
    ELSE NewTaskDefinition(TaskKeywords(args))

\* SimpleCliCommunicationBackend.__init__ with sys.argv[1:] = raw_args.
NewSimpleCli(parsedArgs) ==
    IF parsedArgs.outcome # "ok" THEN Raised(parsedArgs.outcome)
    ELSE IF ParseJob(parsedArgs.args).outcome # "ok"
         THEN Raised(ParseJob(parsedArgs.args).outcome)
    ELSE Returned(SimpleCli(ParseJob(parsedArgs.args).ret, FALSE))

\* The strings a user may type.
Args ==
    { Word("comp"), Word("data"),
      Arg("k=v", << << <<"k">>, <<"v">> >> >>),
      Arg("a=1,a.b=2", << << <<"a">>, <<"1">> >>, << <<"a", "b">>, <<"2">> >> >>) }
    \cup { Arg(f, <<>>) : f \in {"-f", "-i", "-o", "-a"} }

CommandLines == UNION { [1..n -> Args] : n \in 0..MaxArgs }

\* One call recorded: what was called, on which strings, how it ended.
ArgsCall(call, raw_args, args, result) ==
    [call |-> call, raw_args |-> raw_args, args |-> args,
     outcome |-> result.outcome, ret |-> result.ret]

\* _parse_args called on its own, as the tests call it.
DoParseArgs ==
    /\ parsed = <<>>
    /\ \E raw_args \in CommandLines :
          parsed' = <<ArgsCall("_parse_args", raw_args, ParseArgs(raw_args).args,
                               [outcome |-> ParseArgs(raw_args).outcome,
                                ret |-> EmptyData])>>
    /\ UNCHANGED <<datumVars, bcall, pc, err, stdout, inCount, skipped, pending,
                   job, taskIdx, jobsReceived, toCommit, datum_cache, resolved,
                   events, cli, cliLog, ran, cast, stdin, reads, buildLog>>

\* The backend is constructed, as the entry point constructs it.
DoConstruct ==
    /\ parsed = <<>>
    /\ \E raw_args \in CommandLines :
          parsed' = <<ArgsCall("__init__", raw_args, ParseArgs(raw_args).args,
                               NewSimpleCli(ParseArgs(raw_args)))>>
    /\ UNCHANGED <<datumVars, bcall, pc, err, stdout, inCount, skipped, pending,
                   job, taskIdx, jobsReceived, toCommit, datum_cache, resolved,
                   events, cli, cliLog, ran, cast, stdin, reads, buildLog>>

ArgsNext ==
    \/ DoParseArgs
    \/ DoConstruct

SpecArgs == Init /\ [][ArgsNext]_vars

-----------------------------------------------------------------------------
(* Properties of the command line of the single-shot backend *)

\* The strings of a command line that are not an option or its value.
RECURSIVE Positionals(_)
Positionals(raw) ==
    IF raw = <<>> THEN <<>>
    ELSE IF IsOption(raw[1]) THEN Positionals(SubSeq(raw, 3, Len(raw)))
    ELSE <<raw[1]>> \o Positionals(Tail(raw))

GivesComponent(raw) == Positionals(raw) # <<>>
GivesFile(raw) ==
    \E k \in 1..(Len(raw) - 1) : raw[k].text = "-f" /\ ~IsOption(raw[k + 1])

\* Every option is followed by a value and at most one other string is
\* there: the command line is one the parser can take apart.
RECURSIVE Paired(_)
Paired(raw) ==
    IF raw = <<>> THEN TRUE
    ELSE IF IsOption(raw[1])
         THEN Len(raw) >= 2 /\ ~IsOption(raw[2]) /\ Paired(SubSeq(raw, 3, Len(raw)))
    ELSE Paired(Tail(raw))

\* C26: _parse_args accepts a command line if and only if it gives exactly
\* one of --file and the component name; with neither or both the parser
\* exits, and the constructor that called it builds no backend and no job.
\* Stated for the command lines the parser can take apart.
C26_CliUsage ==
    \A n \in 1..Len(parsed) :
        LET c == parsed[n]
            one == GivesComponent(c.raw_args) # GivesFile(c.raw_args)
        IN  (Paired(c.raw_args) /\ Len(Positionals(c.raw_args)) <= 1) =>
                /\ c.call = "_parse_args" => (c.outcome = "ok" <=> one)
                /\ ~one => c.outcome = "SystemExit"

\* The datums a synthesised task binds for a path given on the command
\* line: one of kind NOT_YET_KNOWN at that path, none without a path.
Synthesised(bound, path) ==
    IF path = None THEN bound = <<>>
    ELSE /\ Len(bound) = 1
         /\ bound[1].def = DatumDefinition([base |-> path, sub |-> 0], "not_yet_known", None)

\* C27: constructing the backend from a component name, with or without
\* -i IN and -o OUT, succeeds and leaves a job of exactly one task: that
\* component, library "local", one NOT_YET_KNOWN datum at IN in input_data
\* and one at OUT in output_data, each empty when its option is left out.
C27_JobSynthesis ==
    \A n \in 1..Len(parsed) :
        LET c == parsed[n]
        IN  (/\ c.call = "__init__"
             /\ Paired(c.raw_args)
             /\ Len(Positionals(c.raw_args)) = 1
             /\ \A k \in 1..Len(c.raw_args) : c.raw_args[k].text \notin {"-f", "-a", "-c"})
            => /\ c.outcome = "ok"
               /\ Len(c.ret.job.tasks) = 1
               /\ c.ret.job.tasks[1].component = c.args.component
               /\ c.ret.job.tasks[1].library = "local"
               /\ Synthesised(c.ret.job.tasks[1].input_data, c.args.input)
               /\ Synthesised(c.ret.job.tasks[1].output_data, c.args.output)

-----------------------------------------------------------------------------
(* component_definition.py: the descriptor builder, command_component
   (SpecBuild) *)

\* Parameters of a decorated function.
MaxParams == 2

\* A parameter of the decorated function: its name, what get_real_type
\* finds under its annotation (the concrete type, None without annotation,
\* and the strings among the metadata), and whether it has a default.
Parameter(n, t, meta, dflt) ==
    [name |-> n, type |-> t, metadata |-> meta, has_default |-> dflt]

\* issubclass(type, Datum): Datum itself and its subclasses.
IsDatumClass(t) == t \in DatumClasses \cup {"Datum"}

\* decode_param: type, name and required, then one key per metadata string,
\* set to True; "required" among them overwrites the key of that name.
DecodeParam(param) ==
    [type |-> param.type, name |-> param.name,
     required |-> IF "required" \in param.metadata THEN TRUE ELSE ~param.has_default,
     keys |-> {"type", "name", "required"} \cup param.metadata
              \cup (IF param.has_default THEN {"default"} ELSE {})]

\* The SlotDefinition the decorator makes of a decoded parameter.
SlotOf(decoded) ==
    SlotDefinition(decoded.name, decoded.required, FALSE, IoType([cls |-> decoded.type]))

\* The metadata the decorator starts from.
Metadata ==
    [input_slots |-> <<>>, output_slots |-> <<>>, options |-> <<>>,
     context_varname |-> None]

\* The loop of the decorator over the parameters, in signature order.
RECURSIVE DecorateMutant(_, _)
DecorateMutant(params, metadata) ==
    IF params = <<>> THEN [outcome |-> "ok", metadata |-> metadata]
    ELSE LET decoded == DecodeParam(Head(params))
         IN  IF IsDatumClass(decoded.type)
             THEN IF "output" \notin decoded.keys
                  THEN DecorateMutant(Tail(params),
                          [metadata EXCEPT !.input_slots = Append(@, SlotOf(decoded))])
                  ELSE DecorateMutant(Tail(params),
                          [metadata EXCEPT !.output_slots = Append(@, SlotOf(decoded))])
             ELSE IF decoded.type = "Context"
                  THEN DecorateMutant(Tail(params),
                          [metadata EXCEPT !.context_varname = decoded.name])
             ELSE IF decoded.type \in {"str", "int", "float", "bool", "datetime"}
                  THEN DecorateMutant(Tail(params),
                          [metadata EXCEPT !.options =
                              Append(@, [name |-> decoded.name,
                                         required |-> decoded.required,
                                         type |-> FromType(decoded.type).type])])
             ELSE IF decoded.type = None /\ decoded.name \in {"context", "ctx"}
                  THEN DecorateMutant(Tail(params),
                          [metadata EXCEPT !.context_varname = decoded.name])
             ELSE [outcome |-> "ValueError", metadata |-> Metadata]

RECURSIVE Decorate(_, _)
Decorate(params, metadata) ==
    IF params = <<>> THEN [outcome |-> "ok", metadata |-> metadata]
    ELSE LET decoded == DecodeParam(Head(params))
         IN  IF IsDatumClass(decoded.type)
             THEN IF "input" \in decoded.keys
                  THEN Decorate(Tail(params),
                          [metadata EXCEPT !.input_slots = Append(@, SlotOf(decoded))])
                  ELSE Decorate(Tail(params),
                          [metadata EXCEPT !.output_slots = Append(@, SlotOf(decoded))])
             ELSE IF decoded.type = "Context"
                  THEN Decorate(Tail(params),
                          [metadata EXCEPT !.context_varname = decoded.name])
             ELSE IF decoded.type \in {"str", "int", "float", "bool", "datetime"}
                  THEN Decorate(Tail(params),
                          [metadata EXCEPT !.options =
                              Append(@, [name |-> decoded.name,
                                         required |-> decoded.required,
                                         type |-> FromType(decoded.type).type])])
             ELSE IF decoded.type = None /\ decoded.name \in {"context", "ctx"}
                  THEN Decorate(Tail(params),
                          [metadata EXCEPT !.context_varname = decoded.name])
             ELSE [outcome |-> "ValueError", metadata |-> Metadata]

\* command_component(name, labels=...)(func): the loop, then Component(**metadata),
\* whose set(labels) raises when labels was left at None.
CommandComponent(labelled, decorated) ==
    IF decorated.outcome # "ok" THEN decorated
    ELSE IF ~labelled THEN [outcome |-> "TypeError", metadata |-> Metadata]
    ELSE decorated

\* The functions the decorator is applied to: the parameter in place k has
\* the k-th name.
ParamNames == <<"context", "param1", "param2">>
ParamTypes == {"FolderDatum", "ObjectDatum", "int", None}
Markers == {{}, {"input"}, {"output"}, {"input", "output"}, {"output", "required"}}
Signature(n, t, meta, dflt) ==
    [k \in 1..n |-> Parameter(ParamNames[k], t[k], meta[k], dflt[k])]

\* One application of the decorator recorded: the function and the result.
Built(labelled, params, result) ==
    [labelled |-> labelled, params |-> params, outcome |-> result.outcome,
     component |-> result.metadata]

DoBuild ==
    /\ buildLog = <<>>
    /\ \E labelled \in BOOLEAN, n \in 0..MaxParams :
          \E t \in [1..n -> ParamTypes], meta \in [1..n -> Markers],
             dflt \in [1..n -> BOOLEAN] :
              buildLog' =
                 <<Built(labelled, Signature(n, t, meta, dflt),
                         CommandComponent(labelled,
                            Decorate(Signature(n, t, meta, dflt), Metadata)))>>
    /\ UNCHANGED <<datumVars, bcall, pc, err, stdout, inCount, skipped, pending,
                   job, taskIdx, jobsReceived, toCommit, datum_cache, resolved,
                   events, cli, cliLog, ran, cast, stdin, reads, parsed>>

BuildNext == DoBuild

SpecBuild == Init /\ [][BuildNext]_vars

-----------------------------------------------------------------------------
(* Properties of the descriptor builder *)

\* The parameters of a signature whose concrete type is a Datum variant.
DatumParams(params) == { k \in 1..Len(params) : IsDatumClass(params[k].type) }

\* The slot a Datum parameter stands for: its name, required exactly when
\* it has no default, and the kind tag of its variant.
Declared(param) ==
    SlotDefinition(param.name, ~param.has_default, FALSE, IoType([cls |-> param.type]))

Among(slot, slots) == \E j \in 1..Len(slots) : slots[j] = slot

\* C28: every parameter whose concrete type is a Datum variant becomes an
\* input slot, unless it carries the "output" marker and then it becomes an
\* output slot; either way the slot is required exactly when the parameter
\* has no default, and its kind is the kind tag of the variant.
C28_SlotDirection ==
    \A n \in 1..Len(buildLog) :
        buildLog[n].outcome = "ok" =>
            \A k \in DatumParams(buildLog[n].params) :
                LET param == buildLog[n].params[k]
                    built == buildLog[n].component
                IN  IF "output" \in param.metadata
                    THEN /\ Among(Declared(param), built.output_slots)
                         /\ param.name \notin Names(built.input_slots)
                    ELSE /\ Among(Declared(param), built.input_slots)
                         /\ param.name \notin Names(built.output_slots)

\* C30: in a descriptor the builder returns, a Datum parameter that carries
\* the "input" marker is an input slot and a Datum parameter that carries no
\* marker is an output slot; so a function whose Datum parameters are one
\* marked "output" and one unmarked has two output slots and no input slot.
C30_AsTested ==
    \A n \in 1..Len(buildLog) :
        buildLog[n].outcome = "ok" =>
            LET params == buildLog[n].params
                built == buildLog[n].component
            IN  /\ \A k \in DatumParams(params) :
                      /\ "input" \in params[k].metadata =>
                            /\ params[k].name \in Names(built.input_slots)
                            /\ params[k].name \notin Names(built.output_slots)
                      /\ params[k].metadata = {} =>
                            /\ params[k].name \in Names(built.output_slots)
                            /\ params[k].name \notin Names(built.input_slots)
                /\ (\E k, m \in DatumParams(params) :
                        /\ DatumParams(params) = {k, m}
                        /\ params[k].metadata = {"output"}
                        /\ params[m].metadata = {})
                   => Len(built.output_slots) = 2 /\ built.input_slots = <<>>

\* The function of the test: one FolderDatum parameter marked "output", one
\* bare FolderDatum parameter, and the descriptor built for it.
C30_Witness ==
    /\ Len(buildLog) = 1
    /\ buildLog[1].outcome = "ok"
    /\ Len(buildLog[1].params) = 2
    /\ buildLog[1].params[1] = Parameter("context", "FolderDatum", {"output"}, FALSE)
    /\ buildLog[1].params[2] = Parameter("param1", "FolderDatum", {}, FALSE)
    /\ Names(buildLog[1].component.output_slots) = {"context", "param1"}
    /\ buildLog[1].component.input_slots = <<>>

-----------------------------------------------------------------------------
(* Runtime.start over the single-shot backend (SpecCliRun) *)

\* The backend the runtime is given was constructed with some job.
CliHolds ==
    /\ pc = "start"
    /\ cliLog = <<>>
    /\ \E j \in WireJobs : cli' = SimpleCli(JobDefinition(j), FALSE)
    /\ UNCHANGED <<datumVars, bcall, pc, err, stdout, inCount, skipped, pending,
                   job, taskIdx, jobsReceived, toCommit, datum_cache, resolved,
                   events, cliLog, ran, cast, stdin, reads, parsed, buildLog>>

\* The request get_job sends.
GetJobRequestMutant == Message("JOB_FINISHED", EmptyData)

GetJobRequest == Message("GET_JOB", EmptyData)

\* start: the loop calls get_job, and the backend answers within the call.
CliStartGetJob ==
    /\ pc = "start"
    /\ jobsReceived < MaxJobs
    /\ LET r == SimpleCliSendMessage(cli, GetJobRequest)
       IN  /\ cli' = r.state
           /\ cliLog' = Append(cliLog, Exchange(GetJobRequest, r.response))
           /\ bcall' = BackendCall("get_job", GetJobRequest, r.response,
                                   GetJob(r.response))
           /\ jobsReceived' = IF r.response.command = "JOB_DEFINITION"
                              THEN jobsReceived + 1 ELSE jobsReceived
    /\ pending' = "get_job"
    /\ pc' = "returned"
    /\ UNCHANGED <<datumVars, err, stdout, inCount, skipped, job, taskIdx,
                   toCommit, datum_cache, resolved, events, ran, cast, stdin,
                   reads, parsed, buildLog>>

\* The request commit_datum sends for a datum definition.
CommitRequest(definition) == Message("COMMIT_DATUM", definition)

\* commit_datums: each commit_datum is answered by the backend within the
\* call; a DatumFactory among the outputs raises as it does on any backend.
CliCommitDatums ==
    /\ pc = "commit"
    /\ IF toCommit = <<>>
       THEN /\ events' = Append(events, Event("done", CurrentTask, NoDef))
            /\ pc' = IF taskIdx < Len(job) THEN "task" ELSE "start"
            /\ taskIdx' = IF taskIdx < Len(job) THEN taskIdx + 1 ELSE 0
            /\ UNCHANGED <<err, pending, bcall, cli, cliLog>>
       ELSE IF datums[Head(toCommit)].cls = "DatumFactory"
       THEN /\ pc' = Propagate("AttributeError").pc
            /\ err' = Propagate("AttributeError").err
            /\ events' = Append(events, Event("raise", CurrentTask, NoDef))
            /\ UNCHANGED <<pending, taskIdx, bcall, cli, cliLog>>
       ELSE LET request == CommitRequest(datums[Head(toCommit)].def)
                r == SimpleCliSendMessage(cli, request)
            IN  /\ cli' = r.state
                /\ cliLog' = Append(cliLog, Exchange(request, r.response))
                /\ bcall' = BackendCall("commit_datum", request, r.response,
                                        CommitDatum(r.response))
                /\ pending' = "commit_datum"
                /\ pc' = "returned"
                /\ events' = Append(events, Event("commit", CurrentTask,
                                                  datums[Head(toCommit)].def))
                /\ UNCHANGED <<err, taskIdx>>
    /\ UNCHANGED <<datumVars, stdout, inCount, skipped, job, jobsReceived, toCommit,
                   ran, cast, stdin, reads, parsed, buildLog, datum_cache, resolved>>

CliRunNext ==
    \/ CliHolds
    \/ CliStartGetJob
    \/ Resume
    \/ RunTask
    \/ CliCommitDatums

SpecCliRun == Init /\ [][CliRunNext]_vars

-----------------------------------------------------------------------------
(* Loading, clearing and writing the content of a datum *)

\* Whether get_df / get_object called on x opens and decodes the file: only
\* while nothing is held in memory ("is None") and a file was located.
Decoding(x, f) == x.mem = None /\ x.filename # NoName /\ OpenBinary(x, f) = "ok"

\* C31 (load at most once): once a get_df / get_object has returned on an
\* instance, whatever content the file holds (a stored null included), a
\* further get on it decodes nothing: it finds the value cached.
C31_LoadOnce ==
    \A i \in InstIds :
        (lastOp.op \in Getters /\ lastOp.inst = i /\ lastOp.outcome = "ok") =>
            ~Decoding(datums[i], disk[datums[i].def.path])

\* clear() on x followed by the get of its class, on folder f.
GetAfterClear(x, f) ==
    IF x.cls = "DataFrameDatum" THEN GetDf(Clear(x), f) ELSE GetObject(Clear(x), f)

\* C32 (clear keeps the data): right after a get or a set_df / set_object
\* has succeeded on an instance, so that its content is on disk, clear()
\* followed by get succeeds and returns that content; and no clear() changes
\* the disk or the committed flag.
C32_ClearKeepsData ==
    /\ [](\A i \in InstIds :
            (lastOp.inst = i /\ lastOp.outcome = "ok"
                /\ lastOp.op \in Setters \cup Getters) =>
               /\ GetAfterClear(datums[i], disk[datums[i].def.path]).outcome = "ok"
               /\ GetAfterClear(datums[i], disk[datums[i].def.path]).ret
                     = datums[i].mem)
    /\ [][\A i \in InstIds :
            (lastOp'.op = "clear" /\ lastOp'.inst = i) =>
               /\ disk' = disk
               /\ datums'[i].committed = datums[i].committed]_vars

-----------------------------------------------------------------------------
(* The datums that load a file, over one file of each extension (SpecObject) *)

\* The extensions of the files an ObjectDatum is pointed at: the ones
\* get_object names and one it does not.
Extensions == KnownExtensions \cup {"dat"}

\* A folder with one object file data.<ext>, encoded as its extension says
\* (an unnamed extension holds a pickle), the folder of a table file, and the
\* empty folder of an output.
ObjectFolders ==
    {Folder(TRUE, {}),
     Folder(TRUE, {Entry(FileName(FALSE, "df", "parquet"), TRUE, "parquet", "df0")})}
    \cup
    { Folder(TRUE, {Entry(FileName(FALSE, "data", e), TRUE, DecoderOf(e),
                          IF e = "toml" THEN Table ELSE "Hello")}) :
        e \in Extensions }

ObjectInit ==
    /\ \E f \in ObjectFolders :
          disk = [p \in Paths |-> IF p.sub = 0 THEN f ELSE NoDir]
    /\ datums = [i \in AllIds |-> Absent]
    /\ lastOp = NoCall
    /\ nextUuid = 0
    /\ BackendIdle
    /\ RuntimeIdle

\* Instances alive at once when the datums that load a file are looked at on
\* their own.
MaxFileInst == 1

\* ObjectDatum(definition) on the folder.
NewObjectDatum ==
    /\ FreeId \in InstIds
    /\ FreeId <= MaxFileInst
    /\ Construct("from_definition", 0,
                 FromDefinition(DatumDefinition(PathOf("data"), "object", None), disk))
    /\ UNCHANGED nextUuid

\* DataFrameDatum(definition) on the folder.
NewDataFrameDatum ==
    /\ FreeId \in InstIds
    /\ FreeId <= MaxFileInst
    /\ Construct("from_definition", 0,
                 FromDefinition(DatumDefinition(PathOf("data"), "dataframe", None),
                                disk))
    /\ UNCHANGED nextUuid

\* set_object with any value, a mapping included.
ObjSetObject ==
    \E i \in InstIds, data \in ObjValues \cup {Table} :
        /\ datums[i].cls = "ObjectDatum"
        /\ Apply("set_object", i, SetObject(datums[i], data, disk[datums[i].def.path]))

ObjectNext ==
    \/ NewObjectDatum
    \/ NewDataFrameDatum
    \/ DoGetDf
    \/ DoSetDf
    \/ DoGetObject
    \/ ObjSetObject
    \/ DoClear
    \/ DoCommitFile

SpecObject == ObjectInit /\ [][ObjectNext]_vars

\* Whether folder f holds object.<some extension> written as fmt with value v.
WroteObject(f, fmt, v) ==
    \E e \in f.entries : e.isfile /\ e.name.stem = "object" /\ e.fmt = fmt /\ e.val = v

\* C33 (format symmetry): a set_object that directly follows a successful
\* get_object on the same uncommitted instance succeeds and writes the value
\* in the format the get decoded (pickle for an extension get_object does not
\* name), and a set_object that directly follows construction writes pickle;
\* in both cases for a value the format can hold.
C33_FormatSymmetry ==
    [][\A i \in InstIds :
          LET x == datums[i]
              fmt == IF lastOp.op = "get_object"
                     THEN DecoderOf(x.filename.ext) ELSE "pkl"
          IN  ( /\ lastOp'.op = "set_object" /\ lastOp'.inst = i
                /\ ~x.committed
                /\ Serializes(fmt, datums'[i].mem)
                /\ \/ lastOp.op = "get_object" /\ lastOp.inst = i
                         /\ lastOp.outcome = "ok"
                   \/ lastOp.op = "from_definition" /\ lastOp.retInst = i ) =>
                 /\ lastOp'.outcome = "ok"
                 /\ WroteObject(disk'[x.def.path], fmt, datums'[i].mem)]_vars

-----------------------------------------------------------------------------
(* Construction of the file datums *)

FileClasses == {"FileDatum", "DataFrameDatum", "ObjectDatum"}

\* The names of the regular files of folder f that do not start with a dot.
Visible(f) == {e.name : e \in {e \in f.entries : e.isfile /\ ~e.name.hidden}}

\* C34 (FileDatum construction): whatever an existing folder holds, a file,
\* dataframe or object datum built on it gets filename null when the folder
\* has no visible regular file and that file's name when it has exactly one,
\* and no such datum is built, the construction failing with ValueError, when
\* it has more than one; hidden files and sub-directories never count.
C34_SingleFile ==
    [][(lastOp'.op = "from_definition" /\ disk[PathOf("data")].exists) =>
          LET names == Visible(disk[PathOf("data")])
              built == datums'[lastOp'.retInst]
          IN  /\ lastOp'.outcome \in {"ok", "ValueError"}
              /\ lastOp'.outcome = "ValueError" =>
                    Cardinality(names) > 1 /\ datums' = datums
              /\ (lastOp'.outcome = "ok" /\ built.cls \in FileClasses) =>
                    \/ names = {} /\ built.filename = NoName
                    \/ names = {built.filename}]_vars

\* C34 witness: a file datum was just built on a folder that also holds a
\* hidden file and a sub-directory, and its filename is the one visible file.
C34_Witness ==
    /\ lastOp.op = "from_definition" /\ lastOp.outcome = "ok"
    /\ lastOp.retInst \in InstIds
    /\ datums[lastOp.retInst].cls \in FileClasses
    /\ datums[lastOp.retInst].filename # NoName
    /\ \E e \in disk[PathOf("data")].entries : e.isfile /\ e.name.hidden
    /\ \E e \in disk[PathOf("data")].entries : ~e.isfile

-----------------------------------------------------------------------------
(* What Runtime.start sends *)

\* C35 (commands sent): over the single-shot backend, every request the
\* runtime has sent is a GET_JOB or a COMMIT_DATUM, never a JOB_FINISHED or a
\* CREATE_DATUM, and job_completed is false throughout.
C35_CommandsSent ==
    /\ \A k \in 1..Len(cliLog) :
          cliLog[k].request.command \in {"GET_JOB", "COMMIT_DATUM"}
    /\ ~cli.job_completed

\* C35 witness: a job ran to its end and the runtime asked for the next one:
\* the two requests it has sent are GET_JOBs, with no JOB_FINISHED in between.
C35_Witness ==
    /\ Len(cliLog) = 2
    /\ cliLog[2].request.command = "GET_JOB"
    /\ pc = "returned"
    /\ \E k \in 1..Len(events) : events[k].kind = "done"
    /\ ~cli.job_completed

-----------------------------------------------------------------------------
(* The datum cache of the runtime *)

-----------------------------------------------------------------------------
(* What commit_datums sends after Component.run *)

-----------------------------------------------------------------------------
(* Writing a dataframe more than once *)

\* C38 (one set_df per clear): on an uncommitted DataFrameDatum a set_df
\* while a dataframe is held in memory, so one that directly follows a
\* successful set_df or get_df on it, fails with the commit error and changes
\* nothing; a set_df succeeds only with nothing held, and one that directly
\* follows clear() is not refused.
C38_SetDfOncePerClear ==
    [][\A i \in InstIds :
          ( /\ datums[i].cls = "DataFrameDatum"
            /\ ~datums[i].committed
            /\ lastOp'.op = "set_df" /\ lastOp'.inst = i ) =>
             /\ datums[i].mem # None =>
                   /\ lastOp'.outcome = CommitError
                   /\ datums'[i] = datums[i]
                   /\ disk' = disk
             /\ (lastOp.inst = i /\ lastOp.outcome = "ok"
                    /\ lastOp.op \in {"set_df", "get_df"}) =>
                   lastOp'.outcome = CommitError
             /\ lastOp'.outcome = "ok" => datums[i].mem = None
             /\ (lastOp.inst = i /\ lastOp.op = "clear") =>
                   lastOp'.outcome # CommitError]_vars

\* C38 witness: a second set_df was just refused with the commit error on a
\* dataframe datum that is not committed and holds the dataframe of the first.
C38_Witness ==
    \E i \in InstIds :
        /\ datums[i].cls = "DataFrameDatum"
        /\ ~datums[i].committed
        /\ datums[i].mem \in DfValues
        /\ HasFile(disk[datums[i].def.path], DfName)
        /\ lastOp.op = "set_df" /\ lastOp.inst = i /\ lastOp.outcome = CommitError

-----------------------------------------------------------------------------
(* A write that raises *)

\* C39 as claimed: a set_df / set_object that raises, whether the datum
\* refused it or saving failed, leaves the cached value, the committed flag
\* and the disk as they were before the call.
C39_FailedWriteUnchanged ==
    [][\A i \in InstIds :
          (lastOp'.op \in Setters /\ lastOp'.inst = i /\ lastOp'.outcome # "ok") =>
             /\ datums'[i] = datums[i]
             /\ disk' = disk]_vars

\* C39 (amended): a set_df / set_object that the datum refuses with the
\* commit error leaves the cached value, the committed flag and the disk as
\* they were; one that raises while saving leaves the committed flag as it
\* was, and the datum differs in nothing but the cached value.
C39_FailedWrite ==
    [][\A i \in InstIds :
          (lastOp'.op \in Setters /\ lastOp'.inst = i /\ lastOp'.outcome # "ok") =>
             /\ datums'[i].committed = datums[i].committed
             /\ datums'[i] = [datums[i] EXCEPT !.mem = datums'[i].mem]
             /\ lastOp'.outcome = CommitError =>
                   /\ datums'[i] = datums[i]
                   /\ disk' = disk]_vars

\* C39 witness: a set_object just failed while saving: the datum is still
\* uncommitted, it holds the value it was given, and the target file is empty.
C39_Witness ==
    \E i \in InstIds :
        /\ lastOp.op = "set_object" /\ lastOp.inst = i
        /\ lastOp.outcome \in {"ValueError", "TypeError"}
        /\ ~datums[i].committed
        /\ datums[i].mem = "Hello"
        /\ \E e \in disk[datums[i].def.path].entries :
              e.isfile /\ e.name.stem = "object" /\ e.fmt = "empty"

-----------------------------------------------------------------------------
(* Options: their bounds, their defaults and their cast (SpecOptions) *)

\* The numbers a bound is declared with: 1, 2 and 2.5.
BoundValues == {PyInt(FALSE, 0, 1), PyInt(FALSE, 0, 2), PyFloat(FALSE, 0, 2, TRUE)}

PyNone == PyOther("NoneType")

\* What the annotation of an option parameter declares below and above it:
\* nothing (PyNone) or one annotated_types item, Gt or Ge below, Lt or Le
\* above.
LowerItems ==
    {[kind |-> "none", value |-> PyNone]}
    \cup {[kind |-> k, value |-> b] : k \in {"gt", "ge"}, b \in BoundValues}

UpperItems ==
    {[kind |-> "none", value |-> PyNone]}
    \cup {[kind |-> k, value |-> b] : k \in {"lt", "le"}, b \in BoundValues}

\* decode_param and the OptionDefinition the decorator builds from it: gt
\* and ge both become min, lt and le both become max, and a parameter
\* without a default is required and gets the default None.
OptionDefinition(python_type, lower, upper, required, default) ==
    [type |-> FromType(python_type).type,
     min |-> lower.value,
     max |-> upper.value,
     required |-> required,
     default |-> IF required THEN PyNone ELSE default]

\* The values Python orders as numbers; the bool handed in is False, worth 0.
Ordered(v) == v.type \in {"int", "float", "bool"}

\* -1, 0 or 1: the sign of a number that is not nan.
SignOf(v) ==
    IF v.special = "finite" /\ v.hi = 0 /\ v.lo = 0 /\ ~v.half THEN 0
    ELSE IF v.neg THEN -1 ELSE 1

\* |a| < |b| for two finite numbers.
MagLess(a, b) ==
    \/ a.hi < b.hi
    \/ a.hi = b.hi /\ a.lo < b.lo
    \/ a.hi = b.hi /\ a.lo = b.lo /\ ~a.half /\ b.half

\* a < b between two numbers: exact between an int and a float, false
\* when either is nan.
NumLess(a, b) ==
    /\ a.special # "nan" /\ b.special # "nan"
    /\ \/ SignOf(a) < SignOf(b)
       \/ /\ SignOf(a) = 1 /\ SignOf(b) = 1
          /\ a.special = "finite"
          /\ b.special = "inf" \/ MagLess(a, b)
       \/ /\ SignOf(a) = -1 /\ SignOf(b) = -1
          /\ b.special = "finite"
          /\ a.special = "inf" \/ MagLess(b, a)

\* value < bound as Python evaluates it: [outcome, less]; a str, a datetime
\* or None against a number raises TypeError.
Less(a, b) ==
    IF Ordered(a) /\ Ordered(b) THEN [outcome |-> "ok", less |-> NumLess(a, b)]
    ELSE [outcome |-> "TypeError", less |-> FALSE]

\* The same comparisons with a value equal to the bound counted as outside.
ExtraValidationExclusive(value, definition) ==
    LET ends(e, m) == [outcome |-> e, message |-> m, value |-> value]
        below == Less(value, definition.min)
        above == Less(definition.max, value)
    IN  IF definition.min # PyNone /\ below.outcome # "ok"
        THEN ends(below.outcome, "compare")
        ELSE IF definition.min # PyNone
                /\ (below.less \/ NumEq(value, definition.min))
        THEN ends("ValueError", "too small")
        ELSE IF definition.max # PyNone /\ above.outcome # "ok"
        THEN ends(above.outcome, "compare")
        ELSE IF definition.max # PyNone
                /\ (above.less \/ NumEq(value, definition.max))
        THEN ends("ValueError", "too big")
        ELSE LET casted == CastIfNeeded(definition.type, value)
             IN  [outcome |-> casted.outcome,
                  message |-> IF casted.outcome = "ok" THEN "" ELSE "cast",
                  value |-> casted.value]

\* extra_validation of _validate_options: the raw value against min, then
\* against max, then cast_if_needed; [outcome, message, value].
ExtraValidation(value, definition) ==
    LET ends(e, m) == [outcome |-> e, message |-> m, value |-> value]
        below == Less(value, definition.min)
        above == Less(definition.max, value)
    IN  IF definition.min # PyNone /\ below.outcome # "ok"
        THEN ends(below.outcome, "compare")
        ELSE IF definition.min # PyNone /\ below.less
        THEN ends("ValueError", "too small")
        ELSE IF definition.max # PyNone /\ above.outcome # "ok"
        THEN ends(above.outcome, "compare")
        ELSE IF definition.max # PyNone /\ above.less
        THEN ends("ValueError", "too big")
        ELSE LET casted == CastIfNeeded(definition.type, value)
             IN  [outcome |-> casted.outcome,
                  message |-> IF casted.outcome = "ok" THEN "" ELSE "cast",
                  value |-> casted.value]

\* _validate for one declared option: absent and required raises, absent
\* and not required takes definition.default as it is, provided goes
\* through extra_validation; [outcome, message, value].
ValidateOptions(given, value, definition) ==
    IF ~given
    THEN IF definition.required
         THEN [outcome |-> "ValueError", message |-> "required", value |-> PyNone]
         ELSE [outcome |-> "ok", message |-> "", value |-> definition.default]
    ELSE ExtraValidation(value, definition)

\* The defaults a parameter that is not required is declared with: None, 3
\* (above every bound) and a str.
Defaults == {PyNone, PyInt(FALSE, 0, 3), PyOther("str")}

\* Component.run on a component with one option: the option is declared,
\* then handed in or left out.
RunOption ==
    /\ cast = <<>>
    /\ \E python_type \in {"str", "int", "float", "bool", "datetime"},
          lower \in LowerItems, upper \in UpperItems,
          required \in BOOLEAN, default \in Defaults,
          given \in BOOLEAN, value \in PyValues :
          LET definition ==
                  OptionDefinition(python_type, lower, upper, required, default)
              validated == ValidateOptions(given, value, definition)
          IN  /\ required => default = PyNone
              /\ ~given => value = PyNone
              /\ cast' = Append(cast, [lower |-> lower, upper |-> upper,
                                       definition |-> definition,
                                       given |-> given, value |-> value,
                                       outcome |-> validated.outcome,
                                       message |-> validated.message,
                                       ret |-> validated.value])
    /\ UNCHANGED <<datumVars, bcall, pc, err, stdout, inCount, skipped, pending,
                   job, taskIdx, jobsReceived, toCommit, datum_cache, resolved,
                   events, cli, cliLog, ran, stdin, reads, parsed, buildLog>>

OptionsNext == RunOption

SpecOptions == Init /\ [][OptionsNext]_vars

\* v < m or v > M for the bounds the option has, on the numbers.
OutOfBounds(r) ==
    \/ r.definition.min # PyNone /\ Ordered(r.value)
       /\ NumLess(r.value, r.definition.min)
    \/ r.definition.max # PyNone /\ Ordered(r.value)
       /\ NumLess(r.definition.max, r.value)

\* C40 as it is stated: a provided value is rejected exactly when it is
\* below min or above max.
C40_RejectedIffOutOfBounds ==
    \A i \in 1..Len(cast) :
        cast[i].given => (cast[i].outcome # "ok" <=> OutOfBounds(cast[i]))

\* C40: the bounds are tested on the raw value before the cast and a value
\* equal to a bound passes them, gt and lt included: a provided number
\* below min or above max is rejected with ValueError (too small, too big),
\* a provided value that cannot be ordered against a bound it has raises
\* TypeError, and every other provided value ends as cast_if_needed ends on
\* it, accepted with the cast value when the cast succeeds and rejected
\* when it fails; an absent option that is not required gets the declared
\* default as it is, outside the bounds or of another type or not, and an
\* absent required option raises ValueError.
C40_OptionBounds ==
    \A i \in 1..Len(cast) :
        LET r == cast[i]
            d == r.definition
            bounded == d.min # PyNone \/ d.max # PyNone
        IN  /\ d.min = r.lower.value /\ d.max = r.upper.value
            /\ r.given /\ OutOfBounds(r) =>
                  /\ r.outcome = "ValueError"
                  /\ r.message \in {"too small", "too big"}
            /\ r.given /\ ~OutOfBounds(r) /\ bounded /\ ~Ordered(r.value) =>
                  r.outcome = "TypeError"
            /\ r.given /\ ~OutOfBounds(r) /\ (bounded => Ordered(r.value)) =>
                  /\ r.outcome = CastIfNeeded(d.type, r.value).outcome
                  /\ r.ret = CastIfNeeded(d.type, r.value).value
            /\ /\ r.given /\ Ordered(r.value) /\ (bounded => ~OutOfBounds(r))
               /\ \/ d.min # PyNone /\ NumEq(r.value, d.min)
                  \/ d.max # PyNone /\ NumEq(r.value, d.max)
               => r.message \notin {"too small", "too big", "compare"}
            /\ ~r.given /\ ~d.required =>
                  r.outcome = "ok" /\ r.ret = d.default
            /\ ~r.given /\ d.required => r.outcome = "ValueError"

\* An integer option declared greater than 2 and handed 2 was accepted.
C40_Witness ==
    \E i \in 1..Len(cast) :
        /\ cast[i].given /\ cast[i].lower.kind = "gt"
        /\ cast[i].definition.type = "integer"
        /\ cast[i].value = PyInt(FALSE, 0, 2) /\ cast[i].definition.min = cast[i].value
        /\ cast[i].outcome = "ok" /\ cast[i].ret = cast[i].value

====
